---- MODULE Spec2Model ----
(***************************************************************************)
(* A model of the DuckDB dialector for GORM (package duckdb): the custom   *)
(* create callback duckdbCreateCallback, which hand-builds an INSERT       *)
(* statement, sends it to the connection pool and writes the generated key *)
(* back into the caller's record, and Dialector.Initialize, which installs *)
(* the callbacks on an ORM handle and acquires the connection pool; and    *)
(* the dialector's pure functions: convertNamedValues (driver arguments),  *)
(* DataTypeOf (SQL type names) and QuoteTo (identifier quoting).           *)
(* Further: the converting wrapper around the driver's connection and      *)
(* statement, Initialize run by two callers at once, and rowQueryCallback. *)
(*                                                                         *)
(* Integers of the program are 64, 32, 16 or 8 bits wide.  A machine word  *)
(* is modelled as four 16-bit limbs, least significant first, so that Go's *)
(* conversions between signed and unsigned types keep their bit-level      *)
(* meaning.  int and uint are 64 bits wide (a 64-bit platform).            *)
(***************************************************************************)
EXTENDS Integers, Sequences, FiniteSets, TLC

VARIABLES
    db,         \* the operation handed to the create callback: Error, RowsAffected
    stmt,       \* db.Statement: Schema, Table, ReflectValue
    sent,       \* the statements handed to stmt.ConnPool by this invocation
    reply,      \* what the driver answered to the statement sent
    entry,      \* db and stmt.ReflectValue as they were when the callback was entered
    cpc,        \* position of the create operation: "idle", "ready", "done"
    dialector,  \* the Dialector handed to the ORM and its Config
    handle,     \* the ORM handle (*gorm.DB): callbacks, settings, ConnPool
    calls,      \* what each Initialize call on the handle did, in order
    args,       \* the []driver.NamedValue handed to convertNamedValues
    converted,  \* the list convertNamedValues returned
    schemaField, \* the *schema.Field handed to DataTypeOf
    sqlType,    \* the text DataTypeOf returned
    identifier, \* the string handed to QuoteTo
    written,    \* what QuoteTo wrote to its writer
    rewritten,  \* what QuoteTo wrote when handed its own output
    ppc,        \* position of the function call: "idle", "done", "again"
    wrapped,    \* the call made on the converting wrapper, and the driver under it
    received,   \* the calls the underlying driver received from the wrapper
    procs,      \* the concurrent Initialize calls on one handle: position, locals
    rowOp,      \* the operation handed to rowQueryCallback, and its driver calls
    rowEntry    \* rowOp as it was when the callback was entered

createVars == <<db, stmt, sent, reply, entry, cpc>>
initVars == <<dialector, handle, calls>>
convertVars == <<args, converted>>
typeVars == <<schemaField, sqlType>>
quoteVars == <<identifier, written, rewritten>>
pureVars == <<args, converted, schemaField, sqlType, identifier, written, rewritten, ppc>>
otherVars == <<wrapped, received, procs, rowOp, rowEntry>>
vars == <<db, stmt, sent, reply, entry, cpc, dialector, handle, calls,
          args, converted, schemaField, sqlType, identifier, written, rewritten, ppc,
          wrapped, received, procs, rowOp, rowEntry>>

(***************************************************************************)
(* Bounds of the model.                                                    *)
(***************************************************************************)
MaxFields == 2      \* fields of a record descriptor
MaxAffected == 2    \* affected-row count a driver reports
MaxCalls == 3       \* Initialize calls on one handle
MaxRecords == 2     \* records of a slice handed to Create
MaxArgs == 2        \* arguments of one statement
MaxLen == 4         \* characters of an identifier handed to QuoteTo

(***************************************************************************)
(* Machine words.                                                          *)
(***************************************************************************)
Limb == 2^16
HalfLimb == 2^15
AllOnes == Limb - 1

Word(l0, l1, l2, l3) == <<l0, l1, l2, l3>>
Small(n) == Word(n, 0, 0, 0)
ZeroWord == Small(0)

IntKinds == {"int", "int8", "int16", "int32", "int64"}
UintKinds == {"uint", "uint8", "uint16", "uint32", "uint64"}

Width(kind) ==
    CASE kind \in {"int8", "uint8"} -> 8
      [] kind \in {"int16", "uint16"} -> 16
      [] kind \in {"int32", "uint32"} -> 32
      [] OTHER -> 64

\* The sign bit of a word read at width w.
TopBit(w, x) ==
    CASE w = 8 -> (x[1] \div 128) % 2 = 1
      [] w = 16 -> x[1] >= HalfLimb
      [] w = 32 -> x[2] >= HalfLimb
      [] OTHER -> x[4] >= HalfLimb

\* Conversion to a narrower integer type keeps the low-order w bits.
Truncate(w, x) ==
    CASE w = 8 -> Word(x[1] % 256, 0, 0, 0)
      [] w = 16 -> Word(x[1], 0, 0, 0)
      [] w = 32 -> Word(x[1], x[2], 0, 0)
      [] OTHER -> x

\* Conversion of a signed w-bit value to 64 bits copies the sign bit upward.
SignExtend(w, x) ==
    IF ~TopBit(w, x) THEN x
    ELSE CASE w = 8 -> Word(x[1] + (Limb - 256), AllOnes, AllOnes, AllOnes)
           [] w = 16 -> Word(x[1], AllOnes, AllOnes, AllOnes)
           [] w = 32 -> Word(x[1], x[2], AllOnes, AllOnes)
           [] OTHER -> x

\* The number a stored value denotes, as an 80-bit two's-complement word: two
\* values are numerically equal exactly when these are equal.
Number(kind, x) ==
    IF kind \in IntKinds
    THEN SignExtend(Width(kind), x) \o <<IF TopBit(Width(kind), x) THEN AllOnes ELSE 0>>
    ELSE x \o <<0>>


(***************************************************************************)
(* Record descriptors (schema.Schema), records (reflect.Value) and driver  *)
(* replies: the inputs of the create callback.                             *)
(***************************************************************************)
FieldID == [Name |-> "ID", DBName |-> <<"i", "d">>, AutoIncrement |-> TRUE]
FieldName == [Name |-> "Name", DBName |-> <<"n", "a", "m", "e">>, AutoIncrement |-> FALSE]
FieldAge == [Name |-> "Age", DBName |-> <<"a", "g", "e">>, AutoIncrement |-> FALSE]
FieldSeq == [Name |-> "Seq", DBName |-> <<"s", "e", "q">>, AutoIncrement |-> TRUE]
FieldPool == {FieldID, FieldName, FieldAge, FieldSeq}

Range(s) == {s[i] : i \in DOMAIN s}

\* stmt.Schema.Fields: up to MaxFields fields with different names, in any order.
Schemas ==
    {fs \in UNION {[1..n -> FieldPool] : n \in 0..MaxFields} :
        \A i, j \in DOMAIN fs : i # j => fs[i].Name # fs[j].Name}

TableName == <<"u", "s", "e", "r", "s">>
\* A table name that carries its schema (TableName() returning main.t), and
\* one that holds a double quote.
QualifiedTableName == <<"m", "a", "i", "n", ".", "t">>
QuoteTableName == <<"t", "\"", "x">>
TableNames == {TableName, QualifiedTableName, QuoteTableName}
\* The table names tried with a descriptor: all of them with the descriptors of
\* at most one field, the plain one with the others.
TablesFor(fs) == IF Len(fs) <= 1 THEN TableNames ELSE {TableName}

KeyKinds == IntKinds \cup UintKinds \cup {"string"}
KeyBefore == {ZeroWord, Small(7)}

\* The value a struct field holds: its reflect kind, its bits (integers) or text.
IntValue(kind, bits) == [kind |-> kind, bits |-> bits, text |-> ""]
StringValue(text) == [kind |-> "string", bits |-> ZeroWord, text |-> text]

FieldValueOf(f, keyKind, keyBits) ==
    CASE f.AutoIncrement ->
            IF keyKind = "string" THEN StringValue("k") ELSE IntValue(keyKind, keyBits)
      [] f.Name = "Age" -> IntValue("int", Small(30))
      [] OTHER -> StringValue("alice")

\* A struct whose fields are those of `present`; a schema field may be missing
\* from it (FieldByName then returns the invalid Value).
StructFields(present, keyKind, keyBits) ==
    [n \in {f.Name : f \in present} |->
        FieldValueOf(CHOOSE f \in present : f.Name = n, keyKind, keyBits)]

\* stmt.ReflectValue: a pointer to a struct (its fields are the pointee's, which
\* is always settable), a nil pointer, a struct (settable when it was reached
\* through a pointer, not when the record was passed by value), or a slice of
\* len records (db.Create(&users)); len is 1 for one record.
ReflectValues(fs) ==
    {[kind |-> k[1], canSet |-> k[2], fields |-> StructFields(present, kk, kb), len |-> 1] :
        k \in {<<"ptr", TRUE>>, <<"struct", TRUE>>, <<"struct", FALSE>>},
        present \in SUBSET Range(fs), kk \in KeyKinds, kb \in KeyBefore}
    \cup {[kind |-> "nilptr", canSet |-> FALSE, fields |-> StructFields({}, "uint", ZeroWord),
           len |-> 0]}
    \cup {[kind |-> "slice", canSet |-> FALSE, fields |-> StructFields({}, "uint", ZeroWord),
           len |-> n] : n \in 1..MaxRecords}

\* What Scan stores into `var id interface{}`: the driver's Go type and value.
KeyTypes == {"int64", "uint64", "int32", "int"}
ReturnedKeys ==
    { [type |-> "int64", bits |-> Small(1)],
      [type |-> "int64", bits |-> Small(300)],
      [type |-> "int64", bits |-> Word(AllOnes, AllOnes, AllOnes, AllOnes)],
      [type |-> "uint64", bits |-> Small(5)],
      [type |-> "uint64", bits |-> Word(0, 0, 0, HalfLimb)],
      [type |-> "int32", bits |-> Small(9)],
      [type |-> "int32", bits |-> Word(AllOnes - 4, AllOnes, 0, 0)],
      [type |-> "int", bits |-> Small(4)],
      [type |-> "int", bits |-> Word(AllOnes - 1, AllOnes, AllOnes, AllOnes)],
      [type |-> "string", bits |-> ZeroWord] }

NoKey == [type |-> "none", bits |-> ZeroWord]
NoReply == [ok |-> FALSE, err |-> "", id |-> NoKey, affected |-> 0, counted |-> FALSE]

\* QueryRowContext(...).Scan(&id): an error, or one returned key.
QueryReplies ==
    {[NoReply EXCEPT !.err = "constraint violated"]}
    \cup {[NoReply EXCEPT !.ok = TRUE, !.id = k] : k \in ReturnedKeys}

\* ExecContext(...): an error, or a result whose RowsAffected() reports a
\* count, or reports (0, error) when the driver cannot tell.
ExecReplies ==
    {[NoReply EXCEPT !.err = "constraint violated"]}
    \cup {[NoReply EXCEPT !.ok = TRUE, !.affected = n, !.counted = TRUE] : n \in 0..MaxAffected}
    \cup {[NoReply EXCEPT !.ok = TRUE, !.affected = 0, !.counted = FALSE]}


(***************************************************************************)
(* duckdbCreateCallback.                                                   *)
(***************************************************************************)
Quote == "\""

\* fmt.Sprintf(`"%s"`, name)
Quoted(name) == <<Quote>> \o name \o <<Quote>>

RECURSIVE Join(_, _)
\* strings.Join(parts, sep)
Join(parts, sep) ==
    IF parts = <<>> THEN <<>>
    ELSE IF Len(parts) = 1 THEN parts[1]
    ELSE parts[1] \o <<sep>> \o Join(Tail(parts), sep)

\* The struct a reflect.Value stands for, a pointer followed.
Indirect(rv) ==
    CASE rv.kind = "ptr" -> [rv EXCEPT !.kind = "struct"]
      [] rv.kind = "nilptr" -> [rv EXCEPT !.kind = "invalid"]
      [] OTHER -> rv

NoColumns == [columns |-> <<>>, placeholders |-> <<>>, values |-> <<>>,
              autoIncrementField |-> <<>>]

\* A variant of CollectField that does not skip the auto-increment field.
CollectFieldKeepingKey(acc, field, rv) ==
    LET fieldValue == Indirect(rv)
        seen == IF field.AutoIncrement
                THEN [acc EXCEPT !.autoIncrementField = <<field>>] ELSE acc
    IN  IF fieldValue.kind = "struct" /\ field.Name \in DOMAIN fieldValue.fields
        THEN [seen EXCEPT !.columns = Append(@, Quoted(field.DBName)),
                          !.placeholders = Append(@, <<"?">>),
                          !.values = Append(@, fieldValue.fields[field.Name])]
        ELSE seen

\* One round of the loop over stmt.Schema.Fields: an auto-increment field is
\* remembered and skipped; any other field the struct has adds a column, a
\* placeholder and a value.  autoIncrementField is <<>> for nil.
CollectField(acc, field, rv) ==
    IF field.AutoIncrement
    THEN [acc EXCEPT !.autoIncrementField = <<field>>]
    ELSE LET fieldValue == Indirect(rv)
         IN  IF fieldValue.kind = "struct" /\ field.Name \in DOMAIN fieldValue.fields
             THEN [acc EXCEPT !.columns = Append(@, Quoted(field.DBName)),
                              !.placeholders = Append(@, <<"?">>),
                              !.values = Append(@, fieldValue.fields[field.Name])]
             ELSE acc

RECURSIVE CollectFields(_, _, _)
CollectFields(acc, fields, rv) ==
    IF fields = <<>> THEN acc
    ELSE CollectFields(CollectField(acc, Head(fields), rv), Tail(fields), rv)

\* A variant of InsertSQL that appends the RETURNING clause to every statement.
InsertSQLAlwaysReturning(table, c) ==
    <<"INSERT INTO ", Quote>> \o table \o <<Quote, " (">> \o Join(c.columns, ", ")
        \o <<") VALUES (">> \o Join(c.placeholders, ", ") \o <<")">>
        \o <<" RETURNING ">>
        \o Quoted(IF c.autoIncrementField # <<>> THEN c.autoIncrementField[1].DBName
                  ELSE <<"i", "d">>)

\* The statement text, as the pieces the two Sprintf calls put together.
InsertSQL(table, c) ==
    <<"INSERT INTO ", Quote>> \o table \o <<Quote, " (">> \o Join(c.columns, ", ")
        \o <<") VALUES (">> \o Join(c.placeholders, ", ") \o <<")">>
        \o (IF c.autoIncrementField # <<>>
            THEN <<" RETURNING ">> \o Quoted(c.autoIncrementField[1].DBName)
            ELSE <<>>)


\* A variant of KeyAsUint64 that refuses a negative key.
KeyAsUint64Checked(id) ==
    CASE id.type = "uint64" -> [ok |-> TRUE, bits |-> id.bits]
      [] id.type \in {"int64", "int"} ->
            [ok |-> ~TopBit(64, id.bits), bits |-> id.bits]
      [] id.type = "int32" ->
            [ok |-> ~TopBit(32, id.bits), bits |-> SignExtend(32, id.bits)]
      [] OTHER -> [ok |-> FALSE, bits |-> ZeroWord]

\* The type switch of an unsigned target: uintVal = v or uint64(v); the
\* default case (ok FALSE) returns from the callback.
KeyAsUint64(id) ==
    CASE id.type = "uint64" -> [ok |-> TRUE, bits |-> id.bits]
      [] id.type = "int64" -> [ok |-> TRUE, bits |-> id.bits]
      [] id.type = "int32" -> [ok |-> TRUE, bits |-> SignExtend(32, id.bits)]
      [] id.type = "int" -> [ok |-> TRUE, bits |-> id.bits]
      [] OTHER -> [ok |-> FALSE, bits |-> ZeroWord]

\* The type switch of a signed target: intVal = v or int64(v).
KeyAsInt64(id) ==
    CASE id.type = "int64" -> [ok |-> TRUE, bits |-> id.bits]
      [] id.type = "uint64" -> [ok |-> TRUE, bits |-> id.bits]
      [] id.type = "int32" -> [ok |-> TRUE, bits |-> SignExtend(32, id.bits)]
      [] id.type = "int" -> [ok |-> TRUE, bits |-> id.bits]
      [] OTHER -> [ok |-> FALSE, bits |-> ZeroWord]

\* reflect.Value.SetUint and SetInt store the value converted to the field's type.
SetUint(kind, x) == Truncate(Width(kind), x)
SetInt(kind, x) == Truncate(Width(kind), x)

\* A variant of SetKey that writes the key only into a zero field.
SetKeyIfZero(rv, field, id) ==
    LET structValue == Indirect(rv)
        ok == /\ structValue.kind = "struct"
              /\ field.Name \in DOMAIN structValue.fields
              /\ structValue.canSet
              /\ structValue.fields[field.Name].bits = ZeroWord
              /\ structValue.fields[field.Name].kind \in UintKinds \cup IntKinds
              /\ KeyAsInt64(id).ok
    IN  IF ok
        THEN [rv EXCEPT !.fields[field.Name].bits =
                 Truncate(Width(structValue.fields[field.Name].kind), KeyAsInt64(id).bits)]
        ELSE rv

\* "Set the ID back to the model": the record after the write-back.
SetKey(rv, field, id) ==
    LET structValue == Indirect(rv)
        valid == structValue.kind = "struct" /\ field.Name \in DOMAIN structValue.fields
    IN  IF ~(valid /\ structValue.canSet) THEN rv
        ELSE LET kind == structValue.fields[field.Name].kind
             IN  CASE kind \in UintKinds ->
                        IF KeyAsUint64(id).ok
                        THEN [rv EXCEPT !.fields[field.Name].bits =
                                            SetUint(kind, KeyAsUint64(id).bits)]
                        ELSE rv
                   [] kind \in IntKinds ->
                        IF KeyAsInt64(id).ok
                        THEN [rv EXCEPT !.fields[field.Name].bits =
                                            SetInt(kind, KeyAsInt64(id).bits)]
                        ELSE rv
                   [] OTHER -> rv

\* A variant of QueryRowResult that fails the insert on a key it cannot store.
QueryRowResultStrict(d, r) ==
    IF ~r.ok THEN [d EXCEPT !.Error = r.err]
    ELSE IF r.id.type \notin KeyTypes THEN [d EXCEPT !.Error = "unsupported key type"]
    ELSE [d EXCEPT !.RowsAffected = 1]

\* db after QueryRowContext(...).Scan(&id).
QueryRowResult(d, r) ==
    IF ~r.ok THEN [d EXCEPT !.Error = r.err] ELSE [d EXCEPT !.RowsAffected = 1]

\* A variant of ExecResult that fails when the driver cannot report the count.
ExecResultCountRequired(d, r) ==
    IF ~r.ok THEN [d EXCEPT !.Error = r.err]
    ELSE IF ~r.counted THEN [d EXCEPT !.Error = "rows affected unavailable"]
    ELSE [d EXCEPT !.RowsAffected = r.affected]

\* A variant of ExecResult that resets the count when the statement fails.
ExecResultClearingCount(d, r) ==
    IF ~r.ok THEN [d EXCEPT !.Error = r.err, !.RowsAffected = 0]
    ELSE [d EXCEPT !.RowsAffected = r.affected]

\* db after ExecContext(...): `affected, _ := result.RowsAffected()`.
ExecResult(d, r) ==
    IF ~r.ok THEN [d EXCEPT !.Error = r.err] ELSE [d EXCEPT !.RowsAffected = r.affected]

Statement(mode, sql, values) == [mode |-> mode, sql |-> sql, args |-> values]

\* The statements the ORM can hand to the callback: with a parsed schema, or
\* with none.
Statements ==
    UNION {{[hasSchema |-> TRUE, Schema |-> fs, Table |-> t, ReflectValue |-> rv] :
                rv \in ReflectValues(fs), t \in TablesFor(fs)} : fs \in Schemas}
    \cup {[hasSchema |-> FALSE, Schema |-> <<>>, Table |-> TableName, ReflectValue |-> rv] :
            rv \in ReflectValues(<<>>)}

PriorErrors == {"", "before-create hook failed"}
EntryRowsAffected == {0, 5}

\* The ORM enters the create callback chain for db.Create(value).
BeginCreate ==
    /\ cpc = "idle"
    /\ handle.create = "duckdbCreateCallback"
    /\ \E s \in Statements, e \in PriorErrors, n \in EntryRowsAffected :
        /\ stmt' = s
        /\ db' = [Error |-> e, RowsAffected |-> n]
        /\ entry' = [db |-> [Error |-> e, RowsAffected |-> n], ReflectValue |-> s.ReflectValue]
    /\ sent' = <<>>
    /\ reply' = NoReply
    /\ cpc' = "ready"
    /\ UNCHANGED initVars
    /\ UNCHANGED pureVars
    /\ UNCHANGED otherVars

duckdbCreateCallback ==
    /\ cpc = "ready"
    /\ cpc' = "done"
    /\ IF db.Error # ""
       THEN UNCHANGED <<db, stmt, sent, reply>>
       ELSE IF ~stmt.hasSchema
       THEN /\ db' = [db EXCEPT !.Error = "schema is nil in CREATE callback"]
            /\ UNCHANGED <<stmt, sent, reply>>
       ELSE LET c == CollectFields(NoColumns, stmt.Schema, stmt.ReflectValue)
                sql == InsertSQL(stmt.Table, c)
            IN  IF Len(c.columns) = 0
                THEN /\ db' = [db EXCEPT !.Error = "no fields to insert"]
                     /\ UNCHANGED <<stmt, sent, reply>>
                ELSE IF c.autoIncrementField # <<>>
                THEN \E r \in QueryReplies :
                        /\ sent' = Append(sent, Statement("QueryRowContext", sql, c.values))
                        /\ reply' = r
                        /\ db' = QueryRowResult(db, r)
                        /\ stmt' = IF r.ok
                                   THEN [stmt EXCEPT !.ReflectValue =
                                            SetKey(@, c.autoIncrementField[1], r.id)]
                                   ELSE stmt
                ELSE \E r \in ExecReplies :
                        /\ sent' = Append(sent, Statement("ExecContext", sql, c.values))
                        /\ reply' = r
                        /\ db' = ExecResult(db, r)
                        /\ stmt' = stmt
    /\ UNCHANGED entry
    /\ UNCHANGED initVars
    /\ UNCHANGED pureVars
    /\ UNCHANGED otherVars


InitCreate ==
    /\ cpc = "idle"
    /\ db = [Error |-> "", RowsAffected |-> 0]
    /\ stmt = [hasSchema |-> FALSE, Schema |-> <<>>, Table |-> TableName,
               ReflectValue |-> [kind |-> "nilptr", canSet |-> FALSE,
                                 fields |-> StructFields({}, "uint", ZeroWord), len |-> 0]]
    /\ sent = <<>>
    /\ reply = NoReply
    /\ entry = [db |-> db, ReflectValue |-> stmt.ReflectValue]


(***************************************************************************)
(* The Dialector and its constructors.                                     *)
(***************************************************************************)
DSNs == {<<":memory:">>}
DriverNames == {"", "duckdb", "nosuchdriver"}
\* sql.Register: "duckdb-gorm" by this package's init, "duckdb" by go-duckdb.
RegisteredDrivers == {"duckdb-gorm", "duckdb"}

\* Config values; RowCallbackWorkaround is a *bool: "nil", "true" or "false".
Configs ==
    [DriverName : DriverNames, DSN : DSNs, Conn : {"nil", "pool"},
     DefaultStringSize : {0, 100}, RowCallbackWorkaround : {"nil", "true", "false"}]

ZeroConfig == [DriverName |-> "", DSN |-> <<>>, Conn |-> "nil", DefaultStringSize |-> 0,
               RowCallbackWorkaround |-> "nil"]

\* A gorm.Dialector holding a Dialector: by pointer (*Dialector) or by value.
Open(dsn) == [pointer |-> TRUE, Config |-> [ZeroConfig EXCEPT !.DSN = dsn]]
OpenWithConfig(dsn, config) == [pointer |-> TRUE, Config |-> [config EXCEPT !.DSN = dsn]]
OpenWithRowCallbackWorkaround(dsn, enableWorkaround) ==
    [pointer |-> TRUE,
     Config |-> [ZeroConfig EXCEPT !.DSN = dsn,
                    !.RowCallbackWorkaround = IF enableWorkaround THEN "true" ELSE "false"]]
New(config) == [pointer |-> TRUE, Config |-> config]
\* Dialector{Config: &Config{...}} or &Dialector{Config: &Config{...}}
Literal(config, pointer) == [pointer |-> pointer, Config |-> config]

Dialectors ==
    {Open(dsn) : dsn \in DSNs}
    \cup {OpenWithConfig(dsn, c) : dsn \in DSNs, c \in Configs}
    \cup {OpenWithRowCallbackWorkaround(dsn, b) : dsn \in DSNs, b \in BOOLEAN}
    \cup {New(c) : c \in Configs}
    \cup {Literal(c, p) : c \in Configs, p \in BOOLEAN}

(***************************************************************************)
(* Dialector.Initialize.                                                   *)
(***************************************************************************)
NoPool == [kind |-> "nil", driver |-> "", dsn |-> <<>>, openedBy |-> 0]

\* The handle gorm.Open (gorm.io/gorm v1.30.0, src/go.mod) builds before it
\* calls Initialize: the generic callbacks, no connection pool, and db.Statement
\* still nil, so no settings exist that could hold the registration flag.
\* Statement is "nil" until gorm.Open assigns it after Initialize has returned.
\* clone is gorm's field of that name: 1 on the handle gorm.Open returns (every
\* operation on it starts from db.getInstance(), a new instance with a new
\* Statement), 0 on an instance derived from it (db.Model, db.Where, ...),
\* which shares the callbacks and the pool and owns its Statement.
\* registered is the flag as InstanceGet finds it in the handle's own Statement.
NewHandle == [create |-> "gorm:create", row |-> "gorm:row", registered |-> FALSE,
              Statement |-> "nil", clone |-> 1, ConnPool |-> NoPool]

\* Errors Replace can return, as the words of err.Error(). gorm v1.30.0
\* returns the ordering conflict only and logs a duplicate as a warning; the
\* duplicate wordings are the ones Initialize tests for.
NoError == <<>>
ReplaceErrors ==
    { NoError,
      <<"Duplicated", "callback">>,
      <<"callback", "already", "registered">>,
      <<"conflicting", "callback", "order">> }

\* strings.ToLower, word by word.
ToLower(w) ==
    CASE w = "Duplicated" -> "duplicated"
      [] OTHER -> w

Contains(err, word) == \E i \in DOMAIN err : ToLower(err[i]) = word

\* A variant of IsDuplicateError that swallows every registration error.
IsDuplicateErrorAny(err) == TRUE

\* The test under which a registration error is tolerated.
IsDuplicateError(err) == Contains(err, "duplicated") \/ Contains(err, "already")

\* The guarded read of the per-handle flag: a panic of InstanceGet is
\* recovered and counts as not registered.
AlreadyRegistered(h, getPanics) == IF getPanics THEN FALSE ELSE h.registered

\* A variant of InstanceSet whose write lands even when the call panics.
InstanceSetUnguarded(h, setPanics) == [h EXCEPT !.registered = TRUE]

\* db.getInstance(): the instance an operation on h works on. A handle with
\* clone > 0 yields a new instance that shares the callbacks and the pool and
\* starts with a Statement of its own, with no settings; an instance with
\* clone 0 yields itself.
getInstance(h) ==
    IF h.clone > 0 THEN [h EXCEPT !.clone = 0, !.registered = FALSE] ELSE h

\* The guarded db.InstanceSet(flag, true), its result discarded: a panic is
\* recovered. InstanceSet stores the flag in the Statement of db.getInstance():
\* the handle's own Statement when clone is 0, the Statement of a new instance
\* nobody keeps otherwise.
InstanceSet(h, setPanics) ==
    IF setPanics THEN h
    ELSE IF h.clone = 0 THEN [h EXCEPT !.registered = TRUE]
    ELSE h

\* A variant of shouldApplyRowCallbackFix that reads the Config of a Dialector
\* passed by value too, and applies the workaround when nothing is configured.
shouldApplyRowCallbackFixAsDocumented(d) ==
    IF d.Config.RowCallbackWorkaround # "nil"
    THEN d.Config.RowCallbackWorkaround = "true"
    ELSE TRUE

\* A variant of shouldApplyRowCallbackFix that ignores the configuration.
shouldApplyRowCallbackFixNever(d) == FALSE

\* db.Dialector.(*Dialector) succeeds only for a Dialector passed by pointer;
\* otherwise, and when RowCallbackWorkaround is nil, the function returns false.
shouldApplyRowCallbackFix(d) ==
    IF d.pointer /\ d.Config.RowCallbackWorkaround # "nil"
    THEN d.Config.RowCallbackWorkaround = "true"
    ELSE FALSE

\* db.Callback().<processor>().Replace(name, fn): gorm appends the callback
\* to the processor's list and compiles the list again. The callback runs in
\* place of the one it replaces when compiling succeeds; when compiling
\* reports an error, the processor is left with no compiled callback at all.
Replace(h, processor, fn, err) ==
    LET compiled == IF err = NoError THEN fn ELSE "none"
    IN  IF processor = "create" THEN [h EXCEPT !.create = compiled]
        ELSE [h EXCEPT !.row = compiled]

\* A variant of AcquirePool that opens a connection even when Conn is supplied.
AcquirePoolAlwaysOpen(config, n) ==
    LET driver == IF config.DriverName = "" THEN "duckdb-gorm" ELSE config.DriverName
    IN  [ok |-> driver \in RegisteredDrivers,
         pool |-> [kind |-> "opened", driver |-> driver, dsn |-> config.DSN, openedBy |-> n]]

\* The connection pool of call n: the supplied Conn, or sql.Open(DriverName,
\* DSN), which fails for a driver name that is not registered.
AcquirePool(config, n) ==
    LET driver == IF config.DriverName = "" THEN "duckdb-gorm" ELSE config.DriverName
    IN  IF config.Conn # "nil"
        THEN [ok |-> TRUE,
              pool |-> [kind |-> "supplied", driver |-> "", dsn |-> <<>>, openedBy |-> 0]]
        ELSE [ok |-> driver \in RegisteredDrivers,
              pool |-> [kind |-> "opened", driver |-> driver, dsn |-> config.DSN,
                        openedBy |-> n]]

\* Initialize writes the defaults through the embedded *Config.
WithDefaults(config) ==
    [config EXCEPT !.DefaultStringSize = IF @ = 0 THEN 256 ELSE @,
                   !.DriverName = IF @ = "" THEN "duckdb-gorm" ELSE @]

NoCall == [n |-> 0, nilDB |-> FALSE, getPanicked |-> FALSE, setPanicked |-> FALSE,
           alreadyRegistered |-> FALSE, createErr |-> NoError, rowErr |-> NoError,
           createReplace |-> FALSE, rowReplace |-> FALSE, flagWritten |-> FALSE,
           reachedPool |-> FALSE, result |-> "", before |-> NewHandle]


\* calls: how many Initialize calls the handle has seen, how many of them
\* called Replace on the create and on the row processor, whether every call so
\* far ran undisturbed (no Replace reported an error),
\* and the record of the latest call.
NoCalls == [count |-> 0, createReplaces |-> 0, rowReplaces |-> 0, undisturbed |-> TRUE,
            last |-> NoCall]

InitializeNil ==
    /\ calls.count < MaxCalls
    /\ calls' = [calls EXCEPT !.last =
                    [NoCall EXCEPT !.nilDB = TRUE, !.before = handle,
                                   !.result = "gorm DB instance is nil in Initialize"]]
    /\ UNCHANGED <<dialector, handle>>
    /\ UNCHANGED createVars
    /\ UNCHANGED pureVars
    /\ UNCHANGED otherVars

Initialize ==
    /\ calls.count < MaxCalls
    /\ \E createErr, rowErr \in ReplaceErrors :
        LET n == calls.count + 1
            \* InstanceGet and InstanceSet dereference db.Statement: both
            \* panic on the handle gorm.Open has not finished building
            getPanics == handle.Statement = "nil"
            setPanics == handle.Statement = "nil"
            alreadyRegistered == AlreadyRegistered(handle, getPanics)
            createFails == /\ ~alreadyRegistered
                           /\ createErr # NoError
                           /\ ~IsDuplicateError(createErr)
            h1 == IF alreadyRegistered THEN handle
                  ELSE Replace(handle, "create", "duckdbCreateCallback", createErr)
            registering == ~alreadyRegistered /\ ~createFails
            applyRow == registering /\ shouldApplyRowCallbackFix(dialector)
            h2 == IF applyRow THEN Replace(h1, "row", "rowQueryCallback", rowErr) ELSE h1
            h3 == IF registering THEN InstanceSet(h2, setPanics) ELSE h2
            config == WithDefaults(dialector.Config)
            acquired == AcquirePool(config, n)
            h4 == IF ~createFails /\ acquired.ok
                  THEN [h3 EXCEPT !.ConnPool = acquired.pool] ELSE h3
            result == IF createFails THEN "failed to register custom create callback"
                      ELSE IF ~acquired.ok THEN "failed to open database connection"
                      ELSE ""
        IN  \* inputs the call does not consume are not drawn
            /\ alreadyRegistered => createErr = NoError
            /\ ~applyRow => rowErr = NoError
            /\ handle' = h4
            /\ dialector' = IF createFails THEN dialector
                            ELSE [dialector EXCEPT !.Config = config]
            /\ calls' =
                [count |-> n,
                 createReplaces |-> calls.createReplaces + (IF alreadyRegistered THEN 0 ELSE 1),
                 rowReplaces |-> calls.rowReplaces + (IF applyRow THEN 1 ELSE 0),
                 undisturbed |-> calls.undisturbed /\ createErr = NoError /\ rowErr = NoError,
                 last |-> [n |-> n, nilDB |-> FALSE, getPanicked |-> getPanics,
                           setPanicked |-> registering /\ setPanics,
                           alreadyRegistered |-> alreadyRegistered,
                           createErr |-> createErr, rowErr |-> rowErr,
                           createReplace |-> ~alreadyRegistered, rowReplace |-> applyRow,
                           flagWritten |-> registering /\ ~setPanics,
                           reachedPool |-> ~createFails, result |-> result,
                           before |-> handle]]
    /\ UNCHANGED createVars
    /\ UNCHANGED pureVars
    /\ UNCHANGED otherVars

\* gorm.Open, after Initialize has returned with or without an error:
\* db.Statement = &Statement{...}. From here on the flag accesses do not panic.
OpenAssignsStatement ==
    /\ handle.Statement = "nil"
    /\ calls.count > 0
    /\ handle' = [handle EXCEPT !.Statement = "set"]
    /\ UNCHANGED <<dialector, calls>>
    /\ UNCHANGED createVars
    /\ UNCHANGED pureVars
    /\ UNCHANGED otherVars

\* The caller goes on with an instance derived from the handle gorm.Open
\* returned (db.Model(...), db.Where(...), db.Session(...) without NewDB): the
\* following calls of Initialize receive that instance.
UseInstance ==
    /\ handle.Statement = "set"
    /\ handle.clone > 0
    /\ handle' = getInstance(handle)
    /\ UNCHANGED <<dialector, calls>>
    /\ UNCHANGED createVars
    /\ UNCHANGED pureVars
    /\ UNCHANGED otherVars

\* The handle gorm.Open returns for Dialector d when no Replace reports an
\* error: Initialize has run once, on a handle whose Statement was nil, so both
\* accesses to the flag panicked and the handle carries no flag.
OpenedBy(d) ==
    LET h1 == Replace(NewHandle, "create", "duckdbCreateCallback", NoError)
        h2 == IF shouldApplyRowCallbackFix(d)
              THEN Replace(h1, "row", "rowQueryCallback", NoError) ELSE h1
        h3 == InstanceSet(h2, TRUE)
        acquired == AcquirePool(WithDefaults(d.Config), 1)
        h4 == IF acquired.ok THEN [h3 EXCEPT !.ConnPool = acquired.pool] ELSE h3
    IN  [h4 EXCEPT !.Statement = "set"]

\* gorm.Open(duckdb.Open(":memory:"), &gorm.Config{}).
OpenedHandle == OpenedBy(Open(<<":memory:">>))

(***************************************************************************)
(* convertNamedValues: the arguments of a statement on their way to the    *)
(* driver.                                                                 *)
(***************************************************************************)
\* An interface{} value: its dynamic type, whether it is a nil pointer, its
\* content as text tokens, and (for a value formatSliceForDuckDB may be handed)
\* whether that function accepts it.
Value(type, isNil, data, formats) ==
    [type |-> type, isNil |-> isNil, data |-> data, formats |-> formats]

\* The nil interface value.
Nil == Value("nil", TRUE, <<>>, FALSE)

TimeStamps == {<<"2024-01-15T10:30:00Z">>}
SliceTypes == {"[]int64", "[]byte", "json.RawMessage", "[]interface {}"}

ArgValues ==
    {Nil, Value("*time.Time", TRUE, <<>>, FALSE)}
    \cup {Value("*time.Time", FALSE, t, FALSE) : t \in TimeStamps}
    \cup {Value("time.Time", FALSE, t, FALSE) : t \in TimeStamps}
    \cup {Value("string", FALSE, <<"x">>, FALSE), Value("int64", FALSE, <<"7">>, FALSE)}
    \cup {Value("*[]int64", FALSE, <<"1", "2">>, FALSE),
          Value("[2]int64", FALSE, <<"1", "2">>, FALSE)}
    \cup {Value(t, FALSE, <<"1", "2">>, f) : t \in SliceTypes, f \in BOOLEAN}

\* reflect.ValueOf(v).Kind()
Kind(v) ==
    CASE v.type \in SliceTypes -> "slice"
      [] v.type \in {"*time.Time", "*[]int64"} -> "ptr"
      [] v.type = "[2]int64" -> "array"
      [] v.type = "time.Time" -> "struct"
      [] v.type = "nil" -> "invalid"
      [] OTHER -> v.type

\* driver.NamedValue
NamedValue(name, ordinal, value) == [Name |-> name, Ordinal |-> ordinal, Value |-> value]

ArgNames == {"", "p"}

\* The argument lists database/sql hands over: Ordinal is the 1-based position.
ArgLists ==
    UNION {{[i \in 1..n |-> NamedValue(names[i], i, values[i])] :
                names \in [1..n -> ArgNames], values \in [1..n -> ArgValues]} :
            n \in 0..MaxArgs}

\* The text of a DuckDB array literal, [e1, e2, ...], as a string value.
ArrayLiteral(v) ==
    Value("string", FALSE,
          <<"[">> \o Join([i \in DOMAIN v.data |-> <<v.data[i]>>], ", ") \o <<"]">>, FALSE)

\* formatSliceForDuckDB(value): the literal, or an error.
formatSliceForDuckDB(v) == [ok |-> v.formats, arrayStr |-> ArrayLiteral(v)]

\* A variant of isSlice without the exclusion of string and []byte.
isSliceOfAnything(v) ==
    IF v = Nil THEN FALSE
    ELSE Kind(v) = "slice"

isSlice(v) ==
    IF v = Nil THEN FALSE
    ELSE IF Kind(v) # "slice" THEN FALSE
    ELSE IF v.type \in {"string", "[]byte"} THEN FALSE
    ELSE TRUE

\* One iteration of the loop of convertNamedValues: converted[i] = arg, then
\* the Value is replaced for a *time.Time and for a slice that formats.
convertNamedValue(arg) ==
    IF arg.Value.type = "*time.Time"
    THEN IF arg.Value.isNil
         THEN [arg EXCEPT !.Value = Nil]
         ELSE [arg EXCEPT !.Value = Value("time.Time", FALSE, arg.Value.data, FALSE)]
    ELSE IF isSlice(arg.Value)
    THEN LET r == formatSliceForDuckDB(arg.Value)
         IN  IF r.ok THEN [arg EXCEPT !.Value = r.arrayStr] ELSE arg
    ELSE arg

convertNamedValues(list) == [i \in 1..Len(list) |-> convertNamedValue(list[i])]

CallConvertNamedValues ==
    /\ ppc = "idle"
    /\ converted' = convertNamedValues(args)
    /\ ppc' = "done"
    /\ UNCHANGED args
    /\ UNCHANGED <<typeVars, quoteVars>>
    /\ UNCHANGED <<createVars, initVars>>
    /\ UNCHANGED otherVars

(***************************************************************************)
(* DataTypeOf: the SQL type name of a field.  Type names are text, a       *)
(* sequence of tokens; decimal digits are tokens of their own.             *)
(***************************************************************************)
sqlTypeInteger == "INTEGER"
dataTypeText == "TEXT"
dataTypeBlob == "BLOB"
dataTypeJSON == "JSON"

Digits == <<"0", "1", "2", "3", "4", "5", "6", "7", "8", "9">>

RECURSIVE Decimal(_)
\* fmt.Sprintf("%d", n) for n >= 0
Decimal(n) ==
    IF n < 10 THEN <<Digits[n + 1]>>
    ELSE Decimal(n \div 10) \o <<Digits[(n % 10) + 1]>>

\* schema.DataType values, as text.
schemaBool == <<"bool">>
schemaInt == <<"int">>
schemaUint == <<"uint">>
schemaFloat == <<"float">>
schemaString == <<"string">>
schemaTime == <<"time">>
schemaBytes == <<"bytes">>

\* A *schema.Field: the Go type of the struct field (FieldType.String(), as
\* tokens), the DataType and Size the ORM parsed, and the primary key flag.
Field(fieldType, dataType, size, primaryKey) ==
    [isNil |-> FALSE, FieldType |-> fieldType, DataType |-> dataType, Size |-> size,
     PrimaryKey |-> primaryKey]

NilField == [isNil |-> TRUE, FieldType |-> <<>>, DataType |-> <<>>, Size |-> 0,
             PrimaryKey |-> FALSE]

\* The Size tags of string fields: none (0), a malformed tag (-1), and sizes
\* on both sides of the thresholds.
SizeTags == {0, -1, 1, 255, 65535, 65536, 100000}

\* Config.DefaultStringSize values (a uint).
DefaultStringSizes == {0, 1, 100, 65535, 65536, 100000}

\* The fields schema.Parse builds for the Go types of the README's table.
BasicFields ==
    {Field(<<"bool">>, schemaBool, 0, pk) : pk \in BOOLEAN}
    \cup {Field(<<t[1]>>, schemaInt, t[2], pk) :
            t \in {<<"int8", 8>>, <<"int16", 16>>, <<"int32", 32>>, <<"int64", 64>>,
                   <<"int", 64>>}, pk \in BOOLEAN}
    \cup {Field(<<t[1]>>, schemaUint, t[2], pk) :
            t \in {<<"uint8", 8>>, <<"uint16", 16>>, <<"uint32", 32>>, <<"uint64", 64>>,
                   <<"uint", 64>>}, pk \in BOOLEAN}
    \cup {Field(<<t[1]>>, schemaFloat, t[2], pk) :
            t \in {<<"float32", 32>>, <<"float64", 64>>}, pk \in BOOLEAN}
    \cup {Field(<<"string">>, schemaString, n, pk) : n \in SizeTags, pk \in BOOLEAN}
    \cup {Field(<<"time.Time">>, schemaTime, 0, pk) : pk \in BOOLEAN}
    \cup {Field(<<"[]uint8">>, schemaBytes, 0, pk) : pk \in BOOLEAN}

\* Fields of the package's own types and of types named by a tag.
AdvancedFields ==
    {Field(<<"duckdb.", "UUIDType">>, <<"uuid">>, 0, FALSE),
     Field(<<"duckdb.", "QueryHintType">>, <<"hint">>, 0, FALSE),
     Field(<<"duckdb.", "StringArray">>, <<"VARCHAR", "[]">>, 0, FALSE),
     Field(<<"main.", "Tags">>, <<"jsonb">>, 0, FALSE)}

Fields == BasicFields \cup AdvancedFields \cup {NilField}

\* The type-name markers DataTypeOf looks for, in the order it tests them.
AdvancedTypes ==
    << <<"StructType", "STRUCT">>, <<"MapType", "MAP">>, <<"ListType", "LIST">>,
       <<"DecimalType", "DECIMAL(18,6)">>, <<"IntervalType", "INTERVAL">>,
       <<"UUIDType", "UUID">>, <<"JSONType", dataTypeJSON>>, <<"ENUMType", "ENUM">>,
       <<"UNIONType", "UNION">>, <<"TimestampTZType", "TIMESTAMPTZ">>,
       <<"HugeIntType", "HUGEINT">>, <<"BitStringType", "BIT">>, <<"BLOBType", "BLOB">>,
       <<"GEOMETRYType", "GEOMETRY">>, <<"NestedArrayType", "ARRAY">>,
       <<"QueryHintType", dataTypeJSON>>, <<"ConstraintType", dataTypeJSON>>,
       <<"AnalyticalFunctionType", dataTypeJSON>>,
       <<"PerformanceMetricsType", dataTypeJSON>> >>

\* strings.Contains(typeName, marker), for type names given as tokens.
TypeNameContains(typeName, marker) == \E i \in DOMAIN typeName : typeName[i] = marker

\* case schema.Int
IntType(f) ==
    CASE f.Size = 8 -> <<"TINYINT">>
      [] f.Size = 16 -> <<"SMALLINT">>
      [] f.Size = 32 -> <<sqlTypeInteger>>
      [] OTHER -> <<"BIGINT">>

\* A variant of UintType that follows the README's table: the unsigned types.
UintTypeUnsigned(f) ==
    CASE f.Size = 8 -> <<"UTINYINT">>
      [] f.Size = 16 -> <<"USMALLINT">>
      [] f.Size = 32 -> <<"UINTEGER">>
      [] OTHER -> <<"UBIGINT">>

\* case schema.Uint
UintType(f) ==
    IF f.PrimaryKey THEN <<sqlTypeInteger>>
    ELSE CASE f.Size = 8 -> <<"TINYINT">>
           [] f.Size = 16 -> <<"SMALLINT">>
           [] f.Size = 32 -> <<sqlTypeInteger>>
           [] OTHER -> <<"BIGINT">>

\* A variant of StringType that maps a default size over the threshold to TEXT.
StringTypeTextOverThreshold(d, f) ==
    LET size == IF f.Size # 0 THEN f.Size
                ELSE IF d.Config.DefaultStringSize > 0 THEN d.Config.DefaultStringSize
                ELSE 256
    IN  IF size > 0 /\ size < 65536
        THEN <<"VARCHAR(">> \o Decimal(size) \o <<")">>
        ELSE <<dataTypeText>>

\* case schema.String
StringType(d, f) ==
    LET size == IF f.Size # 0 THEN f.Size
                ELSE IF d.Config.DefaultStringSize > 0 /\ d.Config.DefaultStringSize <= 65535
                THEN d.Config.DefaultStringSize
                ELSE 256
    IN  IF size > 0 /\ size < 65536
        THEN <<"VARCHAR(">> \o Decimal(size) \o <<")">>
        ELSE <<dataTypeText>>

\* The part of DataTypeOf after the switch on field.DataType.
OtherType(f) ==
    LET hits == {i \in DOMAIN AdvancedTypes : TypeNameContains(f.FieldType, AdvancedTypes[i][1])}
    IN  IF f.FieldType # <<>> /\ hits # {}
        THEN <<AdvancedTypes[CHOOSE i \in hits : \A j \in hits : i <= j][2]>>
        ELSE IF f.DataType # <<>> /\ f.DataType[Len(f.DataType)] = "[]"
        THEN SubSeq(f.DataType, 1, Len(f.DataType) - 1) \o <<"[]">>
        ELSE f.DataType

DataTypeOf(d, f) ==
    IF f.isNil THEN <<>>
    ELSE CASE f.DataType = schemaBool -> <<"BOOLEAN">>
           [] f.DataType = schemaInt -> IntType(f)
           [] f.DataType = schemaUint -> UintType(f)
           [] f.DataType = schemaFloat -> IF f.Size = 32 THEN <<"REAL">> ELSE <<"DOUBLE">>
           [] f.DataType = schemaString -> StringType(d, f)
           [] f.DataType = schemaTime -> <<"TIMESTAMP">>
           [] f.DataType = schemaBytes -> <<dataTypeBlob>>
           [] OTHER -> OtherType(f)

\* The dialectors DataTypeOf is called on: as constructed, or after Initialize
\* wrote the defaults.
TypingDialectors ==
    LET made == {New([ZeroConfig EXCEPT !.DSN = <<":memory:">>, !.DefaultStringSize = n]) :
                    n \in DefaultStringSizes}
    IN  made \cup {[d EXCEPT !.Config = WithDefaults(@)] : d \in made}

CallDataTypeOf ==
    /\ ppc = "idle"
    /\ sqlType' = DataTypeOf(dialector, schemaField)
    /\ ppc' = "done"
    /\ UNCHANGED <<schemaField, convertVars, quoteVars>>
    /\ UNCHANGED <<createVars, initVars>>
    /\ UNCHANGED otherVars

(***************************************************************************)
(* QuoteTo: identifier quoting, byte by byte.  Text is a sequence of       *)
(* one-character tokens.                                                   *)
(***************************************************************************)
\* int8 arithmetic: the result wraps around.
Int8(x) == ((x + 128) % 256) - 128

QuoteAlphabet == {"a", "b", ".", Quote}

\* The strings QuoteTo is handed: every text over the alphabet up to MaxLen.
Identifiers == UNION {[1..n -> QuoteAlphabet] : n \in 0..MaxLen}

\* The locals of QuoteTo before the first byte, writing to writer.
QuoteStart(writer) ==
    [out |-> writer, underQuoted |-> FALSE, selfQuoted |-> FALSE,
     continuousBacktick |-> 0, shiftDelimiter |-> 0]

RECURSIVE Repeat(_, _)
\* text written n times
Repeat(text, n) == IF n <= 0 THEN <<>> ELSE text \o Repeat(text, n - 1)

\* A variant of SelfQuoted that takes a leading quote for part of the name.
SelfQuotedNever(s) == FALSE

\* selfQuoted = continuousBacktick > 0: the name came with its own quotes.
SelfQuoted(s) == s.continuousBacktick > 0

\* A variant of ClosesSegment for which a dot is a byte like any other.
ClosesSegmentNever(s) == FALSE

\* The test under which a dot closes the quoted segment.
ClosesSegment(s) == s.continuousBacktick > 0 \/ ~s.selfQuoted

\* A variant of Doubled that writes each pending quote once.
DoubledNot(n) == Repeat(<<Quote>>, n)

\* for ; continuousBacktick > 0; continuousBacktick-- { writer.WriteString(`""`) }
Doubled(n) == Repeat(<<Quote, Quote>>, n)

\* One iteration of the loop over the bytes of str.
QuoteByte(s, v) ==
    IF v = Quote
    THEN LET n == Int8(s.continuousBacktick + 1)
         IN  [s EXCEPT !.out = IF n = 2 THEN @ \o <<Quote, Quote>> ELSE @,
                       !.continuousBacktick = IF n = 2 THEN 0 ELSE n,
                       !.shiftDelimiter = Int8(@ + 1)]
    ELSE IF v = "."
    THEN IF ClosesSegment(s)
         THEN [s EXCEPT !.out = @ \o <<Quote, v>>,
                        !.shiftDelimiter = 0, !.underQuoted = FALSE,
                        !.continuousBacktick = 0]
         ELSE [s EXCEPT !.out = @ \o <<v>>]
    ELSE LET open == Int8(s.shiftDelimiter - s.continuousBacktick) <= 0 /\ ~s.underQuoted
             self == IF open THEN SelfQuoted(s) ELSE s.selfQuoted
             left == IF open /\ self THEN Int8(s.continuousBacktick - 1)
                     ELSE s.continuousBacktick
         IN  [s EXCEPT !.out = @ \o (IF open THEN <<Quote>> ELSE <<>>)
                                 \o Doubled(left) \o <<v>>,
                       !.underQuoted = @ \/ open,
                       !.selfQuoted = self,
                       !.continuousBacktick = IF left > 0 THEN 0 ELSE left,
                       !.shiftDelimiter = Int8(@ + 1)]

RECURSIVE QuoteBytes(_, _)
\* for _, v := range []byte(str)
QuoteBytes(s, str) ==
    IF str = <<>> THEN s ELSE QuoteBytes(QuoteByte(s, Head(str)), Tail(str))

\* What the writer holds when QuoteTo(writer, str) returns.
QuoteTo(writer, str) ==
    LET s == QuoteBytes(QuoteStart(writer), str)
    IN  s.out \o (IF s.continuousBacktick > 0 /\ ~s.selfQuoted THEN <<Quote, Quote>> ELSE <<>>)
              \o <<Quote>>

\* QuoteTo on a new writer.
CallQuoteTo ==
    /\ ppc = "idle"
    /\ written' = QuoteTo(<<>>, identifier)
    /\ ppc' = "done"
    /\ UNCHANGED <<identifier, rewritten, convertVars, typeVars>>
    /\ UNCHANGED <<createVars, initVars>>
    /\ UNCHANGED otherVars

\* QuoteTo on a new writer, handed the text the first call wrote.
CallQuoteToAgain ==
    /\ ppc = "done"
    /\ rewritten' = QuoteTo(<<>>, written)
    /\ ppc' = "again"
    /\ UNCHANGED <<identifier, written, convertVars, typeVars>>
    /\ UNCHANGED <<createVars, initVars>>
    /\ UNCHANGED otherVars

(***************************************************************************)
(* The converting wrapper: convertingConn and convertingStmt stand between *)
(* database/sql and the underlying driver's connection and statement.      *)
(***************************************************************************)
\* The values the wrapper is handed: ones convertNamedValues replaces and one
\* it leaves alone.
WrapperValues ==
    {Value("*time.Time", TRUE, <<>>, FALSE),
     Value("[]int64", FALSE, <<"1", "2">>, TRUE),
     Value("int64", FALSE, <<"7">>, FALSE)}

\* []driver.Value, the argument of the methods without a context.
ValueLists == UNION {[1..n -> WrapperValues] : n \in 0..MaxArgs}

\* []driver.NamedValue, the argument of the context-aware methods.
NamedValueLists ==
    UNION {{[i \in 1..n |-> NamedValue(names[i], i, values[i])] :
                names \in [1..n -> ArgNames], values \in [1..n -> WrapperValues]} :
            n \in 0..MaxArgs}

\* The optional interfaces the wrapped driver.Conn implements, and those the
\* wrapped driver.Stmt implements (Exec and Query are part of driver.Stmt).
ConnDrivers ==
    [ExecerContext : BOOLEAN, Execer : BOOLEAN,
     QueryerContext : BOOLEAN, Queryer : BOOLEAN]
StmtDrivers == [StmtExecContext : BOOLEAN, StmtQueryContext : BOOLEAN]

\* namedArgs[i] = driver.NamedValue{Ordinal: i + 1, Value: arg}
namedArgs(list) == [i \in 1..Len(list) |-> NamedValue("", i, list[i])]

\* values[i] = arg.Value
valuesOf(list) == [i \in 1..Len(list) |-> list[i].Value]

\* One call on the underlying driver, and what the wrapper returns after it.
DriverCall(method, arguments) == [method |-> method, arguments |-> arguments]
Returned(call, fails) ==
    [received |-> <<call>>, result |-> IF fails THEN "driver error" ELSE "ok"]
Unsupported(message) == [received |-> <<>>, result |-> message]

connExecContext(drv, list, fails) ==
    IF drv.ExecerContext
    THEN Returned(DriverCall("ExecerContext.ExecContext", convertNamedValues(list)), fails)
    ELSE IF drv.Execer
    THEN Returned(DriverCall("Execer.Exec", valuesOf(list)), fails)
    ELSE Unsupported("underlying driver does not support Exec operations")

connExec(drv, list, fails) == connExecContext(drv, namedArgs(list), fails)

connQueryContext(drv, list, fails) ==
    IF drv.QueryerContext
    THEN Returned(DriverCall("QueryerContext.QueryContext", convertNamedValues(list)), fails)
    ELSE IF drv.Queryer
    THEN Returned(DriverCall("Queryer.Query", valuesOf(list)), fails)
    ELSE Unsupported("underlying driver does not support Query operations")

connQuery(drv, list, fails) == connQueryContext(drv, namedArgs(list), fails)

stmtExecContext(drv, list, fails) ==
    IF drv.StmtExecContext
    THEN Returned(DriverCall("StmtExecContext.ExecContext", convertNamedValues(list)), fails)
    ELSE Returned(DriverCall("Stmt.Exec", valuesOf(convertNamedValues(list))), fails)

stmtExec(drv, list, fails) == stmtExecContext(drv, namedArgs(list), fails)

stmtQueryContext(drv, list, fails) ==
    IF drv.StmtQueryContext
    THEN Returned(DriverCall("StmtQueryContext.QueryContext", convertNamedValues(list)), fails)
    ELSE Returned(DriverCall("Stmt.Query", valuesOf(convertNamedValues(list))), fails)

stmtQuery(drv, list, fails) == stmtQueryContext(drv, namedArgs(list), fails)

\* A call on the wrapper: receiver, method, the wrapped driver, the arguments,
\* whether the driver will report an error.
WrapperCall(receiver, method, drv, list, fails) ==
    [receiver |-> receiver, method |-> method, driver |-> drv, arguments |-> list,
     fails |-> fails, pc |-> "ready", result |-> "none"]

NoWrapperCall == WrapperCall("none", "none", <<>>, <<>>, FALSE)

WrapperCalls ==
    {WrapperCall("convertingConn", m, d, l, f) :
        m \in {"Exec", "Query"}, d \in ConnDrivers, l \in ValueLists, f \in BOOLEAN}
    \cup {WrapperCall("convertingConn", m, d, l, f) :
        m \in {"ExecContext", "QueryContext"}, d \in ConnDrivers,
        l \in NamedValueLists, f \in BOOLEAN}
    \cup {WrapperCall("convertingStmt", m, d, l, f) :
        m \in {"Exec", "Query"}, d \in StmtDrivers, l \in ValueLists, f \in BOOLEAN}
    \cup {WrapperCall("convertingStmt", m, d, l, f) :
        m \in {"ExecContext", "QueryContext"}, d \in StmtDrivers,
        l \in NamedValueLists, f \in BOOLEAN}

Dispatch(w) ==
    IF w.receiver = "convertingConn"
    THEN CASE w.method = "Exec" -> connExec(w.driver, w.arguments, w.fails)
           [] w.method = "ExecContext" -> connExecContext(w.driver, w.arguments, w.fails)
           [] w.method = "Query" -> connQuery(w.driver, w.arguments, w.fails)
           [] w.method = "QueryContext" -> connQueryContext(w.driver, w.arguments, w.fails)
    ELSE CASE w.method = "Exec" -> stmtExec(w.driver, w.arguments, w.fails)
           [] w.method = "ExecContext" -> stmtExecContext(w.driver, w.arguments, w.fails)
           [] w.method = "Query" -> stmtQuery(w.driver, w.arguments, w.fails)
           [] w.method = "QueryContext" -> stmtQueryContext(w.driver, w.arguments, w.fails)

\* database/sql calls one method of the wrapper.
CallWrapper ==
    /\ wrapped.pc = "ready"
    /\ LET out == Dispatch(wrapped)
       IN  /\ received' = received \o out.received
           /\ wrapped' = [wrapped EXCEPT !.pc = "returned", !.result = out.result]
    /\ UNCHANGED <<procs, rowOp, rowEntry>>
    /\ UNCHANGED pureVars
    /\ UNCHANGED <<createVars, initVars>>

(***************************************************************************)
(* Concurrent Initialize calls on one handle.  Each call runs the steps of *)
(* Initialize in program order; steps of different calls interleave.  The  *)
(* flag lives in the handle's settings (a sync.Map), so each access of it  *)
(* is one step.                                                            *)
(***************************************************************************)
Procs == {1, 2}

\* The locals of one call: alreadyRegistered as the call read it, what the
\* call did, and its return value once it has returned.
NewProc == [pc |-> "start", alreadyRegistered |-> FALSE, getPanicked |-> FALSE,
            createReplace |-> FALSE, rowReplace |-> FALSE, flagWritten |-> FALSE,
            result |-> ""]
NoProc == [NewProc EXCEPT !.pc = "idle"]
NoProcs == [p \in Procs |-> NoProc]

RaceDialectors ==
    {Open(dsn) : dsn \in DSNs}
    \cup {OpenWithRowCallbackWorkaround(dsn, b) : dsn \in DSNs, b \in BOOLEAN}
    \cup {OpenWithConfig(dsn, [ZeroConfig EXCEPT !.Conn = "pool"]) : dsn \in DSNs}
    \cup {OpenWithConfig(dsn, [ZeroConfig EXCEPT !.DriverName = "nosuchdriver"]) :
            dsn \in DSNs}

\* A variant of the registration test that reads the flag again.
MustRegisterRechecking(local, h) == ~local.alreadyRegistered /\ ~h.registered

\* if !alreadyRegistered: the test uses the value read at the start of the call.
MustRegister(local, h) == ~local.alreadyRegistered

RaceFrame ==
    /\ UNCHANGED <<wrapped, received, rowOp, rowEntry>>
    /\ UNCHANGED pureVars
    /\ UNCHANGED createVars
    /\ UNCHANGED calls

\* The guarded InstanceGet at the start of the call.
ReadFlag(p) ==
    /\ procs[p].pc = "start"
    /\ LET getPanics == handle.Statement = "nil" IN
        /\ procs' = [procs EXCEPT ![p].alreadyRegistered = AlreadyRegistered(handle, getPanics),
                                  ![p].getPanicked = getPanics,
                                  ![p].pc = "create"]
    /\ UNCHANGED <<dialector, handle>>
    /\ RaceFrame

\* db.Callback().Create().Replace("gorm:create", duckdbCreateCallback)
ReplaceCreate(p) ==
    /\ procs[p].pc = "create"
    /\ IF MustRegister(procs[p], handle)
       THEN \E createErr \in ReplaceErrors :
               /\ handle' = Replace(handle, "create", "duckdbCreateCallback", createErr)
               /\ procs' =
                    IF createErr # NoError /\ ~IsDuplicateError(createErr)
                    THEN [procs EXCEPT ![p].createReplace = TRUE,
                                       ![p].pc = "returned",
                                       ![p].result = "failed to register custom create callback"]
                    ELSE [procs EXCEPT ![p].createReplace = TRUE, ![p].pc = "row"]
       ELSE /\ procs' = [procs EXCEPT ![p].pc = "pool"]
            /\ UNCHANGED handle
    /\ UNCHANGED dialector
    /\ RaceFrame

\* if shouldApplyRowCallbackFix(db): db.Callback().Row().Replace("gorm:row", rowQueryCallback)
ReplaceRow(p) ==
    /\ procs[p].pc = "row"
    /\ IF shouldApplyRowCallbackFix(dialector)
       THEN \E rowErr \in ReplaceErrors :
               /\ handle' = Replace(handle, "row", "rowQueryCallback", rowErr)
               /\ procs' = [procs EXCEPT ![p].rowReplace = TRUE, ![p].pc = "flag"]
       ELSE /\ procs' = [procs EXCEPT ![p].pc = "flag"]
            /\ UNCHANGED handle
    /\ UNCHANGED dialector
    /\ RaceFrame

\* The guarded db.InstanceSet(callbacksRegisteredKey, true).
SetFlag(p) ==
    /\ procs[p].pc = "flag"
    /\ LET setPanics == handle.Statement = "nil" IN
        /\ handle' = InstanceSet(handle, setPanics)
        /\ procs' = [procs EXCEPT ![p].flagWritten = ~setPanics, ![p].pc = "pool"]
    /\ UNCHANGED dialector
    /\ RaceFrame

\* The defaults, then db.ConnPool from Conn or sql.Open, then the return.
AcquireConnPool(p) ==
    /\ procs[p].pc = "pool"
    /\ LET config == WithDefaults(dialector.Config)
           acquired == AcquirePool(config, p)
       IN  /\ dialector' = [dialector EXCEPT !.Config = config]
           /\ handle' = IF acquired.ok THEN [handle EXCEPT !.ConnPool = acquired.pool]
                        ELSE handle
           /\ procs' = [procs EXCEPT
                          ![p].pc = "returned",
                          ![p].result = IF acquired.ok THEN ""
                                        ELSE "failed to open database connection"]
    /\ RaceFrame

(***************************************************************************)
(* rowQueryCallback: the row callback installed by the workaround, run for *)
(* db.Row() and db.Rows().                                                 *)
(***************************************************************************)
\* Statement.Settings["rows"]: not stored, or a bool.
RowsSettings == {"absent", "true", "false"}

\* Statement.Dest on entry: nothing, or something a caller left there.
EntryDests == {"nil", "&model"}

QueryTexts == {<<>>, <<"SELECT 1">>}

\* The operation (*gorm.DB and its Statement) handed to the callback, the
\* calls it has made on Statement.ConnPool, and whether QueryContext will fail.
RowOps ==
    [Error : PriorErrors, RowsAffected : EntryRowsAffected, DryRun : BOOLEAN,
     SQL : QueryTexts, rows : RowsSettings, Dest : EntryDests,
     queryFails : BOOLEAN, sent : {<<>>}, pc : {"ready"}]

NoRowOp ==
    [Error |-> "", RowsAffected |-> 0, DryRun |-> FALSE, SQL |-> <<>>,
     rows |-> "absent", Dest |-> "nil", queryFails |-> FALSE, sent |-> <<>>,
     pc |-> "idle"]

\* A variant of the early returns without the dry-run test.
ReturnsEarlyUnlessDryRun(op) == op.Error # "" \/ Len(op.SQL) = 0

\* The three early returns: a prior error, no statement text, a dry run.
ReturnsEarly(op) == op.Error # "" \/ Len(op.SQL) = 0 \/ op.DryRun

\* isRows, ok := db.Get("rows"); ok && isRows.(bool)
IsRows(op) == op.rows # "absent" /\ op.rows = "true"

rowQueryCallback(op) ==
    IF ReturnsEarly(op) THEN op
    ELSE IF IsRows(op)
    THEN [op EXCEPT !.rows = "absent",
                    !.sent = Append(@, Statement("QueryContext", op.SQL, <<>>)),
                    !.Dest = IF op.queryFails THEN "(*sql.Rows)(nil)" ELSE "*sql.Rows",
                    !.Error = IF op.queryFails THEN "query failed" ELSE "",
                    !.RowsAffected = -1]
    ELSE [op EXCEPT !.sent = Append(@, Statement("QueryRowContext", op.SQL, <<>>)),
                    !.Dest = "*sql.Row",
                    !.RowsAffected = -1]

\* The row processor runs the callback on an operation.
CallRowQueryCallback ==
    /\ handle.row = "rowQueryCallback"
    /\ rowOp.pc = "ready"
    /\ rowOp' = [rowQueryCallback(rowOp) EXCEPT !.pc = "done"]
    /\ UNCHANGED rowEntry
    /\ UNCHANGED <<wrapped, received, procs>>
    /\ UNCHANGED pureVars
    /\ UNCHANGED <<createVars, initVars>>

(***************************************************************************)
(* Specifications.  SpecCreate: create operations on an opened handle.     *)
(* SpecInitialize: Initialize calls on a new handle, for every dialector.  *)
(* SpecConvert, SpecDataType, SpecQuote: one call of convertNamedValues,   *)
(* of DataTypeOf, of QuoteTo (and QuoteTo again on its output), for every  *)
(* input.  Spec: create operations and Initialize calls together.          *)
(* SpecWrapper: one call on the converting wrapper.  SpecRace: two         *)
(* Initialize calls on one handle, step by step.  SpecRow: one run of      *)
(* rowQueryCallback.                                                       *)
(***************************************************************************)
\* No pure function has been called.
InitPure ==
    /\ args = <<>>
    /\ converted = <<>>
    /\ schemaField = NilField
    /\ sqlType = <<>>
    /\ identifier = <<>>
    /\ written = <<>>
    /\ rewritten = <<>>
    /\ ppc = "idle"

\* No call on the wrapper, no concurrent Initialize, no row query.
InitOther ==
    /\ wrapped = NoWrapperCall
    /\ received = <<>>
    /\ procs = NoProcs
    /\ rowOp = NoRowOp
    /\ rowEntry = NoRowOp

InitCreateOnly ==
    /\ InitCreate
    /\ InitPure
    /\ InitOther
    /\ dialector = [pointer |-> TRUE, Config |-> WithDefaults(Open(<<":memory:">>).Config)]
    /\ handle = OpenedHandle
    /\ calls = NoCalls

NextCreate == BeginCreate \/ duckdbCreateCallback

SpecCreate == InitCreateOnly /\ [][NextCreate]_vars

Init ==
    /\ InitCreate
    /\ InitPure
    /\ InitOther
    /\ dialector \in Dialectors
    /\ handle = NewHandle
    /\ calls = NoCalls

NextInitialize == Initialize \/ InitializeNil \/ OpenAssignsStatement \/ UseInstance

SpecInitialize == Init /\ [][NextInitialize]_vars

Next ==
    \/ Initialize
    \/ InitializeNil
    \/ OpenAssignsStatement
    \/ UseInstance
    \/ BeginCreate
    \/ duckdbCreateCallback

Spec == Init /\ [][Next]_vars

\* A dialector and handle as a successful gorm.Open leaves them.
InitOpened ==
    /\ InitCreate
    /\ dialector = [pointer |-> TRUE, Config |-> WithDefaults(Open(<<":memory:">>).Config)]
    /\ handle = OpenedHandle
    /\ calls = NoCalls

InitConvert ==
    /\ InitOpened
    /\ InitOther
    /\ args \in ArgLists
    /\ converted = <<>>
    /\ schemaField = NilField
    /\ sqlType = <<>>
    /\ identifier = <<>>
    /\ written = <<>>
    /\ rewritten = <<>>
    /\ ppc = "idle"

NextConvert == CallConvertNamedValues

SpecConvert == InitConvert /\ [][NextConvert]_vars

InitDataType ==
    /\ InitCreate
    /\ InitOther
    /\ dialector \in TypingDialectors
    /\ handle = OpenedHandle
    /\ calls = NoCalls
    /\ args = <<>>
    /\ converted = <<>>
    /\ schemaField \in Fields
    /\ sqlType = <<>>
    /\ identifier = <<>>
    /\ written = <<>>
    /\ rewritten = <<>>
    /\ ppc = "idle"

NextDataType == CallDataTypeOf

SpecDataType == InitDataType /\ [][NextDataType]_vars

InitQuote ==
    /\ InitOpened
    /\ InitOther
    /\ args = <<>>
    /\ converted = <<>>
    /\ schemaField = NilField
    /\ sqlType = <<>>
    /\ identifier \in Identifiers
    /\ written = <<>>
    /\ rewritten = <<>>
    /\ ppc = "idle"

NextQuote == CallQuoteTo \/ CallQuoteToAgain

SpecQuote == InitQuote /\ [][NextQuote]_vars

\* One call on the converting wrapper, for every method, driver and argument list.
InitWrapper ==
    /\ InitOpened
    /\ InitPure
    /\ wrapped \in WrapperCalls
    /\ received = <<>>
    /\ procs = NoProcs
    /\ rowOp = NoRowOp
    /\ rowEntry = NoRowOp

NextWrapper == CallWrapper

SpecWrapper == InitWrapper /\ [][NextWrapper]_vars

\* Two Initialize calls running concurrently on one new handle.
InitRace ==
    /\ InitCreate
    /\ InitPure
    /\ \E d \in RaceDialectors :
        /\ dialector = [d EXCEPT !.Config = WithDefaults(d.Config)]
        \* a handle built by hand, the handle gorm.Open returned, or an
        \* instance derived from it
        /\ handle \in {NewHandle, OpenedBy(d), getInstance(OpenedBy(d))}
    /\ calls = NoCalls
    /\ wrapped = NoWrapperCall
    /\ received = <<>>
    /\ procs = [p \in Procs |-> NewProc]
    /\ rowOp = NoRowOp
    /\ rowEntry = NoRowOp

NextRace ==
    \E p \in Procs :
        \/ ReadFlag(p)
        \/ ReplaceCreate(p)
        \/ ReplaceRow(p)
        \/ SetFlag(p)
        \/ AcquireConnPool(p)

SpecRace == InitRace /\ [][NextRace]_vars

\* One run of rowQueryCallback, for every operation it can be handed.
InitRow ==
    /\ InitCreate
    /\ InitPure
    /\ dialector = OpenWithRowCallbackWorkaround(<<":memory:">>, TRUE)
    /\ handle = [OpenedHandle EXCEPT !.row = "rowQueryCallback"]
    /\ calls = NoCalls
    /\ wrapped = NoWrapperCall
    /\ received = <<>>
    /\ procs = NoProcs
    /\ rowOp \in RowOps
    /\ rowEntry = rowOp

NextRow == CallRowQueryCallback

SpecRow == InitRow /\ [][NextRow]_vars


(***************************************************************************)
(* Properties of duckdbCreateCallback (checked under SpecCreate).          *)
(***************************************************************************)
HasToken(text, tok) == \E i \in DOMAIN text : text[i] = tok
IndexOf(text, tok) == CHOOSE i \in DOMAIN text : text[i] = tok /\ \A j \in 1..(i - 1) : text[j] # tok

\* The text of the statement between " (" and ") VALUES (".
ColumnTokens(sql) == SubSeq(sql, IndexOf(sql, " (") + 1, IndexOf(sql, ") VALUES (") - 1)

\* The text of the statement after " RETURNING ".
ReturningTokens(sql) == SubSeq(sql, IndexOf(sql, " RETURNING ") + 1, Len(sql))

RECURSIVE SplitOn(_, _)
SplitOn(text, sep) ==
    IF ~HasToken(text, sep) THEN <<text>>
    ELSE <<SubSeq(text, 1, IndexOf(text, sep) - 1)>>
            \o SplitOn(SubSeq(text, IndexOf(text, sep) + 1, Len(text)), sep)

AutoFields(schema) == {f \in Range(schema) : f.AutoIncrement}

\* The descriptor's auto-increment field: the last one, should it have several.
AutoField(schema) ==
    schema[CHOOSE i \in DOMAIN schema :
              schema[i].AutoIncrement /\ \A j \in DOMAIN schema : j > i => ~schema[j].AutoIncrement]

Entered == cpc = "done" /\ entry.db.Error = "" /\ stmt.hasSchema
QuerySucceeded ==
    Entered /\ Len(sent) = 1 /\ sent[1].mode = "QueryRowContext" /\ reply.ok
ExecSucceeded ==
    Entered /\ Len(sent) = 1 /\ sent[1].mode = "ExecContext" /\ reply.ok

\* The record has a field the INSERT can carry.
Insertable ==
    /\ Indirect(entry.ReflectValue).kind = "struct"
    /\ \E f \in Range(stmt.Schema) :
          ~f.AutoIncrement /\ f.Name \in DOMAIN entry.ReflectValue.fields

KeyBeforeCall == Indirect(entry.ReflectValue).fields[AutoField(stmt.Schema).Name]
KeyAfterCall == Indirect(stmt.ReflectValue).fields[AutoField(stmt.Schema).Name]
HasKeyField == AutoField(stmt.Schema).Name \in DOMAIN entry.ReflectValue.fields

\* The write-back has a place to store the key and a key it can convert.
Writable ==
    /\ HasKeyField
    /\ Indirect(entry.ReflectValue).canSet
    /\ KeyBeforeCall.kind \in IntKinds \cup UintKinds
    /\ reply.id.type \in KeyTypes

\* The number m (80-bit two's complement) is a value of the integer type `kind`.
Fits(kind, m) ==
    LET w == Width(kind)
        high(v) == (w <= 16 => m[2] = v) /\ (w <= 32 => m[3] = v /\ m[4] = v)
    IN  IF kind \in UintKinds
        THEN m[5] = 0 /\ high(0) /\ (w = 8 => m[1] < 256)
        ELSE \/ /\ m[5] = 0 /\ high(0)
                /\ CASE w = 8 -> m[1] < 128
                     [] w = 16 -> m[1] < HalfLimb
                     [] w = 32 -> m[2] < HalfLimb
                     [] OTHER -> m[4] < HalfLimb
             \/ /\ m[5] = AllOnes /\ high(AllOnes)
                /\ CASE w = 8 -> m[1] >= Limb - 128
                     [] w = 16 -> m[1] >= HalfLimb
                     [] w = 32 -> m[2] >= HalfLimb
                     [] OTHER -> m[4] >= HalfLimb

ReturnedNumber == Number(reply.id.type, reply.id.bits)

\* The returned key as a 64-bit pattern.
ReturnedBits == SignExtend(Width(reply.id.type), reply.id.bits)

\* C1: no auto-increment field is in the column list of a statement sent, the
\* statement has a RETURNING clause exactly when the descriptor has an
\* auto-increment field, and the clause is that one quoted column, nothing else.
C1_KeyColumnOnlyReturned ==
    \A i \in DOMAIN sent :
        LET sql == sent[i].sql
            cols == Range(SplitOn(ColumnTokens(sql), ", "))
            autos == AutoFields(stmt.Schema)
        IN  /\ \A f \in autos : Quoted(f.DBName) \notin cols
            /\ HasToken(sql, " RETURNING ") <=> autos # {}
            /\ HasToken(sql, " RETURNING ") =>
                  ReturningTokens(sql) = Quoted(AutoField(stmt.Schema).DBName)

C1_Witness ==
    /\ QuerySucceeded
    /\ HasKeyField
    /\ Len(stmt.Schema) >= 2
    /\ ReturningTokens(sent[1].sql) = <<Quote, "i", "d", Quote>>
    /\ ColumnTokens(sent[1].sql) = <<Quote, "n", "a", "m", "e", Quote>>

\* C2 as stated: after a successful RETURNING query RowsAffected is 1, no error
\* is recorded and the record's key field equals the key the database returned.
C2_KeyEqualsReturned ==
    QuerySucceeded =>
        /\ db.RowsAffected = 1
        /\ db.Error = ""
        /\ HasKeyField
        /\ KeyAfterCall.kind \in IntKinds \cup UintKinds
        /\ reply.id.type \in KeyTypes
        /\ Number(KeyAfterCall.kind, KeyAfterCall.bits) = ReturnedNumber

\* C2 amended: after a successful RETURNING query RowsAffected is 1 and no error
\* is recorded; a settable integer key field given an int64, uint64, int32 or
\* int key holds the key converted to the field's type, which is the returned
\* value whenever the field's type can represent it; in every other case the
\* record is as it was.  No other field changes.
C2_KeyWrittenBack ==
    QuerySucceeded =>
        /\ db.RowsAffected = 1
        /\ db.Error = ""
        /\ stmt.ReflectValue.kind = entry.ReflectValue.kind
        /\ \A n \in DOMAIN entry.ReflectValue.fields :
              n # AutoField(stmt.Schema).Name =>
                  stmt.ReflectValue.fields[n] = entry.ReflectValue.fields[n]
        /\ IF Writable
           THEN /\ KeyAfterCall.kind = KeyBeforeCall.kind
                /\ KeyAfterCall.bits = Truncate(Width(KeyBeforeCall.kind), ReturnedBits)
                /\ Fits(KeyBeforeCall.kind, ReturnedNumber) =>
                      Number(KeyAfterCall.kind, KeyAfterCall.bits) = ReturnedNumber
           ELSE stmt.ReflectValue = entry.ReflectValue

C2_Witness ==
    /\ QuerySucceeded
    /\ Writable
    /\ stmt.ReflectValue.kind = "ptr"
    /\ reply.id = [type |-> "int64", bits |-> Small(300)]
    /\ KeyBeforeCall = IntValue("uint", Small(7))
    /\ KeyAfterCall = IntValue("uint", Small(300))
    /\ db.RowsAffected = 1 /\ entry.db.RowsAffected = 5

\* C3: a negative signed key is not stored into an unsigned field, nor a uint64
\* key above 2^63-1 into a signed field: the field keeps its value.
C3_NoWrappedKey ==
    (/\ QuerySucceeded
     /\ Writable
     /\ \/ /\ KeyBeforeCall.kind \in UintKinds
           /\ reply.id.type \in {"int64", "int32", "int"}
           /\ TopBit(Width(reply.id.type), reply.id.bits)
        \/ /\ KeyBeforeCall.kind \in IntKinds
           /\ reply.id.type = "uint64"
           /\ TopBit(64, reply.id.bits))
    => KeyAfterCall = KeyBeforeCall

\* C4: without an auto-increment field the statement has no RETURNING clause
\* and is run with ExecContext; on success RowsAffected is the count the driver
\* reports, or 0 with no error when the driver cannot report it.
C4_PlainInsert ==
    (Entered /\ AutoFields(stmt.Schema) = {}) =>
        /\ \A i \in DOMAIN sent :
              sent[i].mode = "ExecContext" /\ ~HasToken(sent[i].sql, " RETURNING ")
        /\ Insertable => Len(sent) = 1
        /\ (sent # <<>> /\ reply.ok) =>
              /\ db.Error = ""
              /\ db.RowsAffected = IF reply.counted THEN reply.affected ELSE 0

C4_Witness ==
    /\ ExecSucceeded
    /\ ~reply.counted
    /\ entry.db.RowsAffected = 5
    /\ db.RowsAffected = 0
    /\ db.Error = ""

\* C5: when no column is collected the callback records "no fields to insert",
\* sends nothing, and leaves RowsAffected and the record as they were.
C5_NoFieldsToInsert ==
    (Entered /\ ~Insertable) =>
        /\ db.Error = "no fields to insert"
        /\ sent = <<>>
        /\ db.RowsAffected = entry.db.RowsAffected
        /\ stmt.ReflectValue = entry.ReflectValue

C5_Witness ==
    /\ Entered
    /\ stmt.Schema = <<FieldID>>
    /\ HasKeyField
    /\ entry.db.RowsAffected = 5
    /\ db = [Error |-> "no fields to insert", RowsAffected |-> 5]
    /\ sent = <<>>

\* C6: entered without an error, the callback returns without an error exactly
\* when it sent one statement and that statement succeeded; it never sends
\* more than one, and a key it could not write back does not make an error.
C6_ErrorIffNotInserted ==
    (cpc = "done" /\ entry.db.Error = "") =>
        /\ Len(sent) <= 1
        /\ db.Error = "" <=> (Len(sent) = 1 /\ reply.ok)

C6_Witness ==
    /\ QuerySucceeded
    /\ HasKeyField
    /\ ~Writable
    /\ reply.id.type = "string"
    /\ db.Error = ""
    /\ stmt.ReflectValue = entry.ReflectValue


(***************************************************************************)
(* Properties of Dialector.Initialize (checked under SpecInitialize).      *)
(***************************************************************************)
Called == calls.count >= 1 /\ ~calls.last.nilDB

\* The latest call went through callback registration to the end.
Registering == Called /\ calls.last.createReplace /\ calls.last.reachedPool

CreateAbort == "failed to register custom create callback"

\* Messages that report a duplicate / already registered callback.
DuplicateReports == {<<"Duplicated", "callback">>, <<"callback", "already", "registered">>}

\* C7: over any sequence of Initialize calls on one handle the create
\* callback is replaced exactly once, by the first call; later calls find the
\* flag set. Stated for the calls the flag is meant to serve: no Replace has
\* reported an error, and the latest call read the flag without a panic.
C7_ReplacedOnceAlways ==
    (Called /\ calls.undisturbed /\ ~calls.last.getPanicked) =>
        /\ calls.createReplaces = 1
        /\ calls.last.n >= 2 => calls.last.alreadyRegistered

\* C8: with RowCallbackWorkaround unset, a call that registers callbacks
\* replaces "gorm:row" with rowQueryCallback.
C8_WorkaroundByDefault ==
    (Registering /\ dialector.Config.RowCallbackWorkaround = "nil") =>
        /\ calls.last.rowReplace
        /\ calls.last.rowErr = NoError => handle.row = "rowQueryCallback"

\* C9: with RowCallbackWorkaround set, a call that registers callbacks
\* replaces the row callback exactly when the setting is true, whether the
\* dialector reached the ORM by pointer or by value.
C9_ExplicitSettingObeyed ==
    (Registering /\ dialector.Config.RowCallbackWorkaround # "nil") =>
        (calls.last.rowReplace <=> dialector.Config.RowCallbackWorkaround = "true")

\* C10 as stated: a duplicate report is swallowed, and any other registration
\* error, from the create or from the row replacement, aborts Initialize.
C10_OtherErrorsAbort ==
    Called =>
        /\ (calls.last.createReplace /\ calls.last.createErr \in DuplicateReports) =>
              calls.last.reachedPool
        /\ (calls.last.createReplace /\ calls.last.createErr \notin DuplicateReports \cup {NoError}) =>
              ~calls.last.reachedPool /\ calls.last.result = CreateAbort
        /\ (calls.last.rowReplace /\ calls.last.rowErr \in DuplicateReports) =>
              calls.last.reachedPool
        /\ (calls.last.rowReplace /\ calls.last.rowErr \notin DuplicateReports \cup {NoError}) =>
              ~calls.last.reachedPool /\ calls.last.result # ""

\* C10 amended: a duplicate report is swallowed and initialization continues; any
\* other error from replacing the create callback aborts Initialize with an
\* error; any other error from replacing the row callback is only logged, and
\* initialization continues.
C10_OnlyCreateErrorsAbort ==
    Called =>
        /\ (calls.last.createReplace /\ calls.last.createErr \in DuplicateReports) =>
              calls.last.reachedPool
        /\ (calls.last.createReplace /\ calls.last.createErr \notin DuplicateReports \cup {NoError}) =>
              /\ ~calls.last.reachedPool
              /\ calls.last.result = CreateAbort
        /\ (calls.last.rowReplace /\ calls.last.rowErr # NoError) =>
              /\ calls.last.reachedPool
              /\ calls.last.result # CreateAbort
              /\ calls.last.flagWritten \/ calls.last.setPanicked

C10_Witness ==
    /\ Called
    /\ calls.last.rowReplace
    /\ calls.last.rowErr = <<"conflicting", "callback", "order">>
    /\ calls.last.createErr = <<"Duplicated", "callback">>
    /\ calls.last.result = ""
    /\ handle.registered
    /\ handle.ConnPool.kind = "opened"

(***************************************************************************)
(* Properties of convertNamedValues (checked under SpecConvert).           *)
(***************************************************************************)
\* What the contract makes of one value: null for a nil pointer to a timestamp,
\* the timestamp for another, the array literal for a slice that is not a
\* []byte and that formats, the value itself otherwise.
ConvertedValue(v) ==
    IF v.type = "*time.Time"
    THEN IF v.isNil THEN Nil ELSE Value("time.Time", FALSE, v.data, FALSE)
    ELSE IF Kind(v) = "slice" /\ v.type # "[]byte" /\ v.formats
    THEN ArrayLiteral(v)
    ELSE v

ConvertedAsContracted ==
    ppc = "done" =>
        /\ Len(converted) = Len(args)
        /\ \A i \in DOMAIN args :
              /\ converted[i].Name = args[i].Name
              /\ converted[i].Ordinal = args[i].Ordinal
              /\ converted[i].Value = ConvertedValue(args[i].Value)

\* C11: convertNamedValues returns a list of the same length and order as its
\* input, with each parameter's name and ordinal, and leaves the input list as
\* it was; each value is null for a nil pointer to a timestamp, the pointed-to
\* timestamp for a non-nil one, the array literal text for a slice other than
\* a byte slice whose formatting succeeds, and the original value otherwise
\* (nil, strings, byte slices, slices whose formatting fails).
C11_ArgumentsConverted == []ConvertedAsContracted /\ [][args' = args]_vars

C11_Witness ==
    /\ ppc = "done"
    /\ Len(args) = 2
    /\ args[1].Value = Value("*time.Time", TRUE, <<>>, FALSE)
    /\ converted[1].Value = Nil
    /\ args[2].Value = Value("[]int64", FALSE, <<"1", "2">>, TRUE)
    /\ converted[2] = NamedValue(args[2].Name, 2,
                                 Value("string", FALSE, <<"[", "1", ", ", "2", "]">>, FALSE))

(***************************************************************************)
(* Properties of DataTypeOf (checked under SpecDataType).                  *)
(***************************************************************************)
Typed == ppc = "done" /\ ~schemaField.isNil

UnsignedTypeNames == {<<"UTINYINT">>, <<"USMALLINT">>, <<"UINTEGER">>, <<"UBIGINT">>}
SignedTypeNames == {<<"TINYINT">>, <<"SMALLINT">>, <<"INTEGER">>, <<"BIGINT">>}

\* C12: for an unsigned integer field flagged primary key, of any bit width,
\* DataTypeOf returns INTEGER and never an unsigned type name; for an unsigned
\* field that is not a primary key it returns TINYINT, SMALLINT, INTEGER or
\* BIGINT.
C12_UnsignedFieldsSigned ==
    (Typed /\ schemaField.DataType = schemaUint) =>
        /\ sqlType \notin UnsignedTypeNames
        /\ schemaField.PrimaryKey => sqlType = <<"INTEGER">>
        /\ ~schemaField.PrimaryKey => sqlType \in SignedTypeNames

C12_Witness ==
    /\ Typed
    /\ schemaField = Field(<<"uint8">>, schemaUint, 8, TRUE)
    /\ sqlType = <<"INTEGER">>

\* The README's data type table, by Go type.
ReadmeTypes ==
    { <<"bool", "BOOLEAN">>,
      <<"int8", "TINYINT">>, <<"int16", "SMALLINT">>, <<"int32", "INTEGER">>,
      <<"int64", "BIGINT">>,
      <<"uint8", "UTINYINT">>, <<"uint16", "USMALLINT">>, <<"uint32", "UINTEGER">>,
      <<"uint64", "UBIGINT">>,
      <<"float32", "REAL">>, <<"float64", "DOUBLE">>,
      <<"time.Time", "TIMESTAMP">>, <<"[]uint8", "BLOB">> }

\* C13: for fields that are not primary keys DataTypeOf follows the README's
\* table: bool is BOOLEAN, int8/16/32/64 are TINYINT/SMALLINT/INTEGER/BIGINT,
\* uint8/16/32/64 are UTINYINT/USMALLINT/UINTEGER/UBIGINT, float32/64 are
\* REAL/DOUBLE, time is TIMESTAMP and byte slices are BLOB.
C13_ReadmeTable ==
    (Typed /\ ~schemaField.PrimaryKey) =>
        \A row \in ReadmeTypes : schemaField.FieldType = <<row[1]>> => sqlType = <<row[2]>>

\* C14: for Go uint fields DataTypeOf returns the same SQL type, BIGINT, for a
\* primary key field and for the field that references it (not a primary
\* key).
C14_KeyAndReferenceAlike ==
    (Typed /\ schemaField.FieldType = <<"uint">>) =>
        /\ sqlType = <<"BIGINT">>
        /\ sqlType = DataTypeOf(dialector, [schemaField EXCEPT !.PrimaryKey = ~@])

IsStringField == Typed /\ schemaField.DataType = schemaString
DefaultStringSize == dialector.Config.DefaultStringSize
VarChar(n) == <<"VARCHAR(">> \o Decimal(n) \o <<")">>

\* C15 as stated: a string field is VARCHAR(n) for a declared size n in
\* 1..65535, VARCHAR(d) for no declared size and DefaultStringSize d in 1..65535
\* (256 when it is 0), and TEXT for a declared size of 65536 or more or for no
\* declared size and a DefaultStringSize over 65535.
C15_TextOverThreshold ==
    IsStringField =>
        /\ (schemaField.Size >= 1 /\ schemaField.Size <= 65535) =>
              sqlType = VarChar(schemaField.Size)
        /\ (schemaField.Size = 0 /\ DefaultStringSize >= 1 /\ DefaultStringSize <= 65535) =>
              sqlType = VarChar(DefaultStringSize)
        /\ (schemaField.Size = 0 /\ DefaultStringSize = 0) => sqlType = VarChar(256)
        /\ schemaField.Size >= 65536 => sqlType = <<"TEXT">>
        /\ (schemaField.Size = 0 /\ DefaultStringSize > 65535) => sqlType = <<"TEXT">>

\* C15 amended: a string field is VARCHAR(n) for a declared size n in 1..65535,
\* VARCHAR(d) for no declared size and DefaultStringSize d in 1..65535,
\* VARCHAR(256) for no declared size and a DefaultStringSize that is 0 or over
\* 65535, and TEXT for a declared size of 65536 or more.
C15_DefaultOverThreshold ==
    IsStringField =>
        /\ (schemaField.Size >= 1 /\ schemaField.Size <= 65535) =>
              sqlType = VarChar(schemaField.Size)
        /\ (schemaField.Size = 0 /\ DefaultStringSize >= 1 /\ DefaultStringSize <= 65535) =>
              sqlType = VarChar(DefaultStringSize)
        /\ (schemaField.Size = 0 /\ (DefaultStringSize = 0 \/ DefaultStringSize > 65535)) =>
              sqlType = VarChar(256)
        /\ schemaField.Size >= 65536 => sqlType = <<"TEXT">>

C15_Witness ==
    /\ IsStringField
    /\ schemaField.Size = 0
    /\ DefaultStringSize = 65536
    /\ sqlType = <<"VARCHAR(", "2", "5", "6", ")">>

(***************************************************************************)
(* Properties of QuoteTo (checked under SpecQuote).                        *)
(***************************************************************************)
Segments(text) == SplitOn(text, ".")

\* One or more non-empty segments separated by dots, without quote characters.
PlainSegments(text) ==
    /\ ~HasToken(text, Quote)
    /\ \A i \in DOMAIN Segments(text) : Segments(text)[i] # <<>>

\* C16: QuoteTo writes an identifier without quote and dot wrapped in one pair
\* of double quotes, and a compound identifier of n non-empty such segments as
\* the n segments, each wrapped in double quotes, joined by unquoted dots.
C16_SegmentsQuoted ==
    (ppc \in {"done", "again"} /\ PlainSegments(identifier)) =>
        written = Join([i \in DOMAIN Segments(identifier) |-> Quoted(Segments(identifier)[i])],
                       ".")

C16_Witness ==
    /\ ppc = "done"
    /\ identifier = <<"a", ".", "b">>
    /\ written = <<Quote, "a", Quote, ".", Quote, "b", Quote>>

RECURSIVE ReadQuoted(_, _, _, _)
\* The engine's reading of a quoted, possibly compound, identifier: segments in
\* double quotes separated by dots, a doubled quote inside a segment standing
\* for one quote.  mode: "start" before a segment, "in" inside one, "after" it.
ReadQuoted(text, i, mode, segs) ==
    IF i > Len(text) THEN [ok |-> mode = "after", segments |-> segs]
    ELSE CASE mode = "start" ->
                IF text[i] = Quote THEN ReadQuoted(text, i + 1, "in", Append(segs, <<>>))
                ELSE [ok |-> FALSE, segments |-> segs]
           [] mode = "in" ->
                IF text[i] # Quote
                THEN ReadQuoted(text, i + 1, "in",
                                [segs EXCEPT ![Len(segs)] = Append(@, text[i])])
                ELSE IF i < Len(text) /\ text[i + 1] = Quote
                THEN ReadQuoted(text, i + 2, "in",
                                [segs EXCEPT ![Len(segs)] = Append(@, Quote)])
                ELSE ReadQuoted(text, i + 1, "after", segs)
           [] OTHER ->
                IF text[i] = "." THEN ReadQuoted(text, i + 1, "start", segs)
                ELSE [ok |-> FALSE, segments |-> segs]

\* The text denotes the identifier name, segment by segment.
Denotes(text, name) ==
    LET r == ReadQuoted(text, 1, "start", <<>>)
    IN  r.ok /\ r.segments = Segments(name)

QuotePositions(text) == {i \in DOMAIN text : text[i] = Quote}

\* C17 as stated: for every identifier with exactly one double quote, at any
\* position, what QuoteTo writes denotes the identifier, quote included.
C17_QuoteAnywhereKept ==
    (ppc = "done" /\ Cardinality(QuotePositions(identifier)) = 1) =>
        Denotes(written, identifier)

\* C17 amended: for every identifier of non-empty dot-separated segments with
\* exactly one double quote that is neither the first character of its segment
\* nor directly followed by a dot, what QuoteTo writes denotes the identifier,
\* quote included.
C17_InnerQuoteKept ==
    (/\ ppc = "done"
     /\ Cardinality(QuotePositions(identifier)) = 1
     /\ \A i \in DOMAIN Segments(identifier) : Segments(identifier)[i] # <<>>
     /\ \A i \in QuotePositions(identifier) :
            /\ i > 1
            /\ identifier[i - 1] # "."
            /\ i < Len(identifier) => identifier[i + 1] # ".") =>
        Denotes(written, identifier)

C17_Witness ==
    /\ ppc = "done"
    /\ identifier = <<"a", Quote, "b">>
    /\ written = <<Quote, "a", Quote, Quote, "b", Quote>>

\* C18: QuoteTo is idempotent: for every identifier of one or more non-empty
\* dot-separated segments without quote characters, QuoteTo applied to what
\* QuoteTo wrote writes the same text again.
C18_QuoteToIdempotent ==
    (ppc = "again" /\ PlainSegments(identifier)) => rewritten = written

C18_Witness ==
    /\ ppc = "again"
    /\ identifier = <<"a", ".", "b">>
    /\ rewritten = <<Quote, "a", Quote, ".", Quote, "b", Quote>>

(***************************************************************************)
(* More properties of duckdbCreateCallback (checked under SpecCreate).     *)
(***************************************************************************)
\* C19: creating a slice of N records in one call inserts all N rows, records
\* no error and sets RowsAffected to N.
C19_SliceInserted ==
    (/\ Entered
     /\ entry.ReflectValue.kind = "slice"
     /\ \E f \in Range(stmt.Schema) : ~f.AutoIncrement) =>
        /\ db.Error = ""
        /\ Len(sent) >= 1
        /\ db.RowsAffected = entry.ReflectValue.len

\* C20: the callback sends at most one statement per invocation; when that
\* statement fails, the driver's error is recorded on the operation, nothing
\* more is sent, and RowsAffected and the record are left as they were.
C20_FailureRecordedOnly ==
    cpc = "done" =>
        /\ Len(sent) <= 1
        /\ (Len(sent) = 1 /\ ~reply.ok) =>
              /\ db.Error = reply.err
              /\ db.Error # ""
              /\ db.RowsAffected = entry.db.RowsAffected
              /\ stmt.ReflectValue = entry.ReflectValue

C20_Witness ==
    /\ cpc = "done"
    /\ Len(sent) = 1
    /\ sent[1].mode = "ExecContext"
    /\ ~reply.ok
    /\ db.Error = reply.err
    /\ entry.db.RowsAffected = 5
    /\ db.RowsAffected = 5

(***************************************************************************)
(* Claims about the converting wrapper.                                    *)
(***************************************************************************)
\* The arguments of the call in progress as []driver.NamedValue.
WrapperInput ==
    IF wrapped.method \in {"Exec", "Query"} THEN namedArgs(wrapped.arguments)
    ELSE wrapped.arguments

\* The values a call handed to the underlying driver.
ValuesReceived(call) ==
    IF call.method \in {"Execer.Exec", "Queryer.Query", "Stmt.Exec", "Stmt.Query"}
    THEN call.arguments
    ELSE valuesOf(call.arguments)

\* C21: every call the underlying driver receives from the wrapper carries
\* the values convertNamedValues makes of the wrapper's arguments, whichever
\* method was called and whichever interfaces the driver implements.
C21_EveryPathConverts ==
    \A i \in DOMAIN received :
        ValuesReceived(received[i]) = valuesOf(convertNamedValues(WrapperInput))

(***************************************************************************)
(* Claims about the identifiers of the INSERT text.                        *)
(***************************************************************************)
\* The text between INSERT INTO and the column list.
TableTokens(sql) == SubSeq(sql, IndexOf(sql, "INSERT INTO ") + 1, IndexOf(sql, " (") - 1)

\* The fields whose columns the callback puts into the statement, in order.
ColumnFields ==
    SelectSeq(stmt.Schema,
              LAMBDA f : ~f.AutoIncrement /\ f.Name \in DOMAIN Indirect(stmt.ReflectValue).fields)

\* C22: in the INSERT text the callback sends, the table and every column
\* (and the column of the RETURNING clause) are written as QuoteTo writes
\* them.
C22_QuotedAsQuoteTo ==
    (Entered /\ Len(sent) = 1) =>
        LET sql == sent[1].sql
        IN  /\ TableTokens(sql) = QuoteTo(<<>>, stmt.Table)
            /\ ColumnTokens(sql) =
                  Join([i \in DOMAIN ColumnFields |-> QuoteTo(<<>>, ColumnFields[i].DBName)],
                       ", ")
            /\ HasToken(sql, " RETURNING ") =>
                  ReturningTokens(sql) = QuoteTo(<<>>, AutoField(stmt.Schema).DBName)

(***************************************************************************)
(* Claims about concurrent Initialize calls.                               *)
(***************************************************************************)
\* The call has passed the registration test.
PastRegistration(p) == procs[p].pc \in {"row", "flag", "pool", "returned"}

\* C23: the flag is read and set in separate steps: a call that read the
\* flag unset replaces the create callback whatever another call on the same
\* handle has done since, so two calls that both read it unset both replace.
C23_CheckAndSetNotAtomic ==
    \A p \in Procs :
        (PastRegistration(p) /\ ~procs[p].alreadyRegistered) => procs[p].createReplace

\* Both calls read the flag unset (no panic), both replaced the create
\* callback and set the flag, and both returned success.
C23_Witness ==
    \A p \in Procs :
        /\ procs[p].pc = "returned"
        /\ ~procs[p].getPanicked
        /\ ~procs[p].alreadyRegistered
        /\ procs[p].createReplace
        /\ procs[p].flagWritten
        /\ procs[p].result = ""
        /\ handle.create = "duckdbCreateCallback"

(***************************************************************************)
(* Claims about rowQueryCallback.                                          *)
(***************************************************************************)
\* The operation came in without an error, with statement text, not as a dry run.
RowQueryDue == rowEntry.Error = "" /\ Len(rowEntry.SQL) > 0 /\ ~rowEntry.DryRun

\* C24: rowQueryCallback assigns Statement.Dest exactly when the operation
\* has no prior error, has statement text and is not a dry run; it then makes
\* one driver call, QueryContext when the "rows" setting is true (and the
\* setting is removed), QueryRowContext otherwise, and RowsAffected is -1;
\* in every other case the operation is left as it was.
C24_RowQuery ==
    rowOp.pc = "done" =>
        /\ (rowOp.Dest # rowEntry.Dest) <=> RowQueryDue
        /\ RowQueryDue =>
              /\ Len(rowOp.sent) = 1
              /\ rowOp.sent[1].sql = rowEntry.SQL
              /\ rowEntry.rows = "true" =>
                    (rowOp.sent[1].mode = "QueryContext" /\ rowOp.rows = "absent")
              /\ rowEntry.rows # "true" =>
                    (rowOp.sent[1].mode = "QueryRowContext" /\ rowOp.rows = rowEntry.rows)
              /\ rowOp.RowsAffected = -1
        /\ ~RowQueryDue => rowOp = [rowEntry EXCEPT !.pc = "done"]

\* A db.Rows() operation went through: one QueryContext call, the setting
\* removed, the rows in Dest, RowsAffected -1.
C24_Witness ==
    /\ rowOp.pc = "done"
    /\ rowEntry.rows = "true"
    /\ rowEntry.RowsAffected = 5
    /\ Len(rowOp.sent) = 1
    /\ rowOp.sent[1].mode = "QueryContext"
    /\ rowOp.rows = "absent"
    /\ rowOp.Dest = "*sql.Rows"
    /\ rowOp.RowsAffected = -1

(***************************************************************************)
(* Claims about the connection pool and the flag accesses of Initialize    *)
(* (checked under SpecInitialize).                                         *)
(***************************************************************************)
OpenAbort == "failed to open database connection"

\* The pool sql.Open(DriverName, DSN) gives the latest call; the driver name
\* is the configured one, or duckdb-gorm when none was configured.
PoolOpenedByCall ==
    [kind |-> "opened", driver |-> dialector.Config.DriverName,
     dsn |-> dialector.Config.DSN, openedBy |-> calls.last.n]

\* C25 as stated: every call that gets past callback registration assigns
\* the handle's pool: the supplied Conn when there is one, else a pool newly
\* opened with the configured driver name and DSN.
C25_PoolAlwaysAssigned ==
    (Called /\ calls.last.reachedPool) =>
        IF dialector.Config.Conn # "nil"
        THEN handle.ConnPool.kind = "supplied"
        ELSE /\ handle.ConnPool = PoolOpenedByCall
             /\ handle.ConnPool.driver # ""

\* C25 amended: a call that gets past callback registration, whether it
\* registered callbacks or found them registered, assigns the supplied Conn,
\* opening nothing, or else the pool it newly opens with the configured driver
\* name (duckdb-gorm when empty) and DSN; when that open fails the call
\* returns an error and the handle keeps the pool it had.
C25_PoolAssignedUnlessOpenFails ==
    (Called /\ calls.last.reachedPool) =>
        IF dialector.Config.Conn # "nil"
        THEN /\ handle.ConnPool.kind = "supplied"
             /\ handle.ConnPool.openedBy = 0
             /\ calls.last.result = ""
        ELSE /\ dialector.Config.DriverName # ""
             /\ IF dialector.Config.DriverName \in RegisteredDrivers
                THEN handle.ConnPool = PoolOpenedByCall /\ calls.last.result = ""
                ELSE /\ handle.ConnPool = calls.last.before.ConnPool
                     /\ calls.last.result = OpenAbort

\* A repeated Initialize found the callbacks registered and replaced the pool
\* the call before it had opened by a new one.
C25_Witness ==
    /\ Called
    /\ calls.last.n >= 2
    /\ calls.last.alreadyRegistered
    /\ calls.last.before.ConnPool.kind = "opened"
    /\ calls.last.before.ConnPool.openedBy = calls.last.n - 1
    /\ handle.ConnPool.kind = "opened"
    /\ handle.ConnPool.openedBy = calls.last.n
    /\ handle.ConnPool.driver = "duckdb-gorm"

\* C26: a panic of the flag read counts as not registered and the call goes
\* on to register; a panic of the flag write leaves the flag as it was and the
\* call goes on to acquire the pool; the call returns normally either way.
C26_FlagPanicsRecovered ==
    Called =>
        /\ calls.last.getPanicked =>
              (~calls.last.alreadyRegistered /\ calls.last.createReplace)
        /\ calls.last.setPanicked =>
              /\ ~calls.last.flagWritten
              /\ handle.registered = calls.last.before.registered
              /\ calls.last.reachedPool
              /\ calls.last.result \in {"", OpenAbort}
              /\ calls.last.result = "" => handle.ConnPool.kind # "nil"

\* Both flag accesses of one call panicked, the flag is unset, and the call
\* returned success with a pool opened.
C26_Witness ==
    /\ Called
    /\ calls.last.getPanicked
    /\ calls.last.setPanicked
    /\ calls.last.createReplace
    /\ ~handle.registered
    /\ calls.last.result = ""
    /\ handle.ConnPool.kind = "opened"
    /\ handle.ConnPool.openedBy = calls.last.n

\* The latest call replaced the create callback, went on to the flag write,
\* and then failed to open the connection.
OpenFailedAfterRegistration ==
    /\ Called
    /\ calls.last.result = OpenAbort
    /\ calls.last.createReplace
    /\ calls.last.createErr = NoError

\* C29: when Initialize fails because the connection cannot be opened, what
\* the call registered before stays: the custom create callback is installed
\* (and the row callback, if it was replaced), the flag is set, and the
\* handle's connection pool is the one it had.
C29_NoRollbackOnOpenFailure ==
    OpenFailedAfterRegistration =>
        /\ handle.create = "duckdbCreateCallback"
        /\ handle.registered
        /\ handle.ConnPool = calls.last.before.ConnPool
        /\ (calls.last.rowReplace /\ calls.last.rowErr = NoError) =>
              handle.row = "rowQueryCallback"

(***************************************************************************)
(* Claims about the key field of the record (checked under SpecCreate).    *)
(***************************************************************************)
\* The 64-bit type the write-back converts the key to for a field of `kind`.
Wide(kind) == IF kind \in UintKinds THEN "uint64" ELSE "int64"

\* C27: whatever the width of the integer key field, after a successful
\* RETURNING query the field holds a value numerically equal to the returned
\* key or is unchanged; a key outside the range of a narrower field is not
\* stored truncated.  Stated for keys the conversion to uint64 / int64 keeps
\* (the sign wrap of that conversion is C3).
C27_EqualOrUnchanged ==
    (/\ QuerySucceeded
     /\ Writable
     /\ Fits(Wide(KeyBeforeCall.kind), ReturnedNumber))
    => \/ KeyAfterCall = KeyBeforeCall
       \/ Number(KeyAfterCall.kind, KeyAfterCall.bits) = ReturnedNumber

\* The values of the statement sent are those of the columns' fields.
ColumnValues ==
    [i \in DOMAIN ColumnFields |-> Indirect(entry.ReflectValue).fields[ColumnFields[i].Name]]

\* The record came in with a key its caller had assigned.
CallerAssignedKey ==
    /\ Entered
    /\ AutoFields(stmt.Schema) # {}
    /\ HasKeyField
    /\ KeyBeforeCall.kind \in IntKinds \cup UintKinds
    /\ KeyBeforeCall.bits # ZeroWord

NeverSent ==
    \A i \in DOMAIN sent :
        /\ \A f \in AutoFields(stmt.Schema) :
              Quoted(f.DBName) \notin Range(SplitOn(ColumnTokens(sent[i].sql), ", "))
        /\ sent[i].args = ColumnValues

\* C28 as stated: a key the caller assigned is never sent, and after a
\* successful insert the field holds the key the database returned.
C28_KeyReplacedByReturned ==
    CallerAssignedKey =>
        /\ NeverSent
        /\ QuerySucceeded =>
              /\ reply.id.type \in KeyTypes
              /\ Number(KeyAfterCall.kind, KeyAfterCall.bits) = ReturnedNumber

\* C28 amended: a key the caller assigned is never sent: no statement has
\* the auto-increment column or the key among its values; after a successful
\* insert a settable integer field given an int64, uint64, int32 or int key
\* holds the key converted to the field's type, whatever it held before, and
\* in every other case the caller's key stays.
C28_KeyNeverSent ==
    CallerAssignedKey =>
        /\ NeverSent
        /\ QuerySucceeded =>
              IF Writable
              THEN /\ KeyAfterCall.bits = Truncate(Width(KeyBeforeCall.kind), ReturnedBits)
                   /\ Fits(KeyBeforeCall.kind, ReturnedNumber) =>
                         Number(KeyAfterCall.kind, KeyAfterCall.bits) = ReturnedNumber
              ELSE KeyAfterCall = KeyBeforeCall

\* A record that came in with ID 7 and a name was inserted without the key,
\* and holds the returned key 1 afterwards.
C28_Witness ==
    /\ CallerAssignedKey
    /\ QuerySucceeded
    /\ Writable
    /\ KeyBeforeCall = IntValue("int64", Small(7))
    /\ reply.id = [type |-> "int64", bits |-> Small(1)]
    /\ KeyAfterCall = IntValue("int64", Small(1))
    /\ ColumnTokens(sent[1].sql) = <<Quote, "n", "a", "m", "e", Quote>>
    /\ sent[1].args = <<StringValue("alice")>>

(***************************************************************************)
(* Claims about the shape of what QuoteTo writes (checked under SpecQuote). *)
(***************************************************************************)
\* The text is a dot-separated sequence of complete double-quoted segments.
CompleteSegments(text) == ReadQuoted(text, 1, "start", <<>>).ok

\* C30: for every input, the empty string and inputs with a leading dot, a
\* leading double quote or consecutive dots included, what QuoteTo writes is
\* a dot-separated sequence of complete double-quoted segments.
C30_CompleteQuotedSegments ==
    ppc = "done" => CompleteSegments(written)
====
